---- MODULE Spec2Model ----
(***************************************************************************)
(* saritasa-sqlalchemy-tools: the filter DSL (repositories/filters.py) and *)
(* the repository's statement pipeline (repositories/core.py), over the    *)
(* three related tables of tests/models.py.                                *)
(*                                                                         *)
(* Encoding.  Column values are integers; NULL stands for SQL NULL / None. *)
(* A text value is the code point of a one-letter string.  A filter value  *)
(* is a sequence: <<v>> for a scalar, <<v1, .., vn>> for a list.  A field   *)
(* string is the sequence of its name chunks and "__" separators, so       *)
(* "text__exact" is <<"text", "__", "exact">>.  A predicate evaluates to   *)
(* one of "T", "F", "N" (SQL three-valued logic).                          *)
(***************************************************************************)
EXTENDS Integers, Sequences, FiniteSets, TLC

VARIABLES db, next_id, last

vars == <<db, next_id, last>>

\* The number of instances saved in a run (unbounded in the program).
MaxSaved == 4

\* Members declared in the body of an OrderingEnum subclass.
MaxMembers == 2

\* Objects per batch call.
MaxBatch == 2

NULL == 0 - 1

Models == {"TestModel", "RelatedModel", "M2MModel"}

Texts == {97, 98}

\* ------------------------------------------------------------------------
\* Entity metadata (tests/models.py)
\* ------------------------------------------------------------------------

\* Mapped columns of each model that the model keeps.
Columns ==
    [TestModel |-> {"id", "text", "number", "related_model_id"},
     RelatedModel |-> {"id", "test_model_id"},
     M2MModel |-> {"id", "test_model_id", "related_model_id"},
     SoftDeleteTestModel |-> {"id", "text", "number", "deleted"}]

\* Relationships: model, name, target, uselist and the join condition
\* (local column = remote column; through the association table when
\* secondary is set).
RelationshipTable ==
    { [model |-> "TestModel", name |-> "related_model",
       target |-> "RelatedModel", uselist |-> FALSE, secondary |-> FALSE,
       local |-> "related_model_id", remote |-> "id"],
      [model |-> "TestModel", name |-> "related_models",
       target |-> "RelatedModel", uselist |-> TRUE, secondary |-> FALSE,
       local |-> "id", remote |-> "test_model_id"],
      [model |-> "TestModel", name |-> "m2m_related_models",
       target |-> "RelatedModel", uselist |-> TRUE, secondary |-> TRUE,
       local |-> "test_model_id", remote |-> "related_model_id"],
      [model |-> "TestModel", name |-> "m2m_associations",
       target |-> "M2MModel", uselist |-> TRUE, secondary |-> FALSE,
       local |-> "id", remote |-> "test_model_id"],
      [model |-> "RelatedModel", name |-> "test_model",
       target |-> "TestModel", uselist |-> FALSE, secondary |-> FALSE,
       local |-> "test_model_id", remote |-> "id"],
      [model |-> "RelatedModel", name |-> "test_model_list",
       target |-> "TestModel", uselist |-> TRUE, secondary |-> FALSE,
       local |-> "id", remote |-> "related_model_id"],
      [model |-> "RelatedModel", name |-> "m2m_associations",
       target |-> "M2MModel", uselist |-> TRUE, secondary |-> FALSE,
       local |-> "id", remote |-> "related_model_id"],
      [model |-> "M2MModel", name |-> "test_model",
       target |-> "TestModel", uselist |-> FALSE, secondary |-> FALSE,
       local |-> "test_model_id", remote |-> "id"],
      [model |-> "M2MModel", name |-> "related_model",
       target |-> "RelatedModel", uselist |-> FALSE, secondary |-> FALSE,
       local |-> "related_model_id", remote |-> "id"] }

IsRelationship(model, name) ==
    \E r \in RelationshipTable : r.model = model /\ r.name = name

Relationship(model, name) ==
    CHOOSE r \in RelationshipTable : r.model = model /\ r.name = name

\* getattr(model, name).property exists: the name is a mapped column or a
\* relationship.  Anything else (an unknown name, the empty name, a plain
\* Python property) ends in AttributeError.
HasProperty(model, name) ==
    name \in Columns[model] \/ IsRelationship(model, name)

\* TestModel.m2m_filters: key -> (relation_field, filter_field, match_field).
m2m_filters ==
    [TestModel |->
        { [key |-> "m2m_related_model_id",
           relation_field |-> "m2m_associations",
           filter_field |-> "related_model_id",
           match_field |-> "test_model_id"] },
     RelatedModel |-> {},
     M2MModel |-> {}]

\* Comparison methods a column attribute offers.  "overlaps" is offered by
\* range-typed columns only, and the models declare none.
ColumnOperators ==
    {"is_", "in_", "__eq__", "__gt__", "__ge__", "__lt__", "__le__"}

\* ------------------------------------------------------------------------
\* Field strings: str.split("__") and "__".join
\* ------------------------------------------------------------------------

SEP == "__"

HasSep(field) == \E i \in 1..Len(field) : field[i] = SEP

\* The text between two separators: one name chunk, or the empty string.
segment(chunks) == IF chunks = <<>> THEN "" ELSE chunks[1]

RECURSIVE split(_)
split(field) ==
    IF ~HasSep(field)
    THEN <<segment(field)>>
    ELSE LET i == CHOOSE k \in 1..Len(field) :
                    /\ field[k] = SEP
                    /\ \A j \in 1..(k - 1) : field[j] # SEP
         IN <<segment(SubSeq(field, 1, i - 1))>>
                \o split(SubSeq(field, i + 1, Len(field)))

RECURSIVE join(_)
join(parts) ==
    IF parts = <<>> THEN <<>>
    ELSE (IF parts[1] = "" THEN <<>> ELSE <<parts[1]>>)
            \o (IF Len(parts) > 1 THEN <<SEP>> \o join(Tail(parts)) ELSE <<>>)

\* ------------------------------------------------------------------------
\* Filter.transform_filter (repositories/filters.py)
\* ------------------------------------------------------------------------

Raise(error) == [node |-> "raise", error |-> error]

IsRaise(p) == p.node = "raise"

Filter(field, value, exclude) ==
    [field |-> field, value |-> value, exclude |-> exclude]

filter_args_mapping ==
    [is |-> "is_", in |-> "in_", overlaps |-> "overlaps", exact |-> "__eq__",
     gt |-> "__gt__", gte |-> "__ge__", lt |-> "__lt__", lte |-> "__le__"]

\* Faulty variant of transform_simple_filter: an unmapped token falls back to
\* equality instead of failing the lookup.
transform_simple_filter_default(self, field_name, filter_arg, model, value) ==
    LET method == IF filter_arg \in DOMAIN filter_args_mapping
                  THEN filter_args_mapping[filter_arg] ELSE "__eq__"
    IN IF method \notin ColumnOperators THEN Raise("AttributeError")
       ELSE [node |-> "cmp", attr |-> field_name, method |-> method,
             value |-> value]

transform_simple_filter(self, field_name, filter_arg, model, value) ==
    IF filter_arg \notin DOMAIN filter_args_mapping
    THEN Raise("KeyError")
    ELSE IF filter_args_mapping[filter_arg] \notin ColumnOperators
    THEN Raise("AttributeError")
    ELSE [node |-> "cmp", attr |-> field_name,
          method |-> filter_args_mapping[filter_arg], value |-> value]

RECURSIVE transform_filter(_, _)

\* Faulty variant of transform_relationship: has and any the wrong way round.
transform_relationship_swapped(self, field_name, filter_arg, model, value) ==
    LET field == Relationship(model, field_name)
        property_filter == IF field.uselist THEN "has" ELSE "any"
        criterion == transform_filter(Filter(join(filter_arg), value, FALSE),
                                      field.target)
    IN IF IsRaise(criterion) THEN criterion
       ELSE [node |-> property_filter, rel |-> field_name,
             model |-> model, criterion |-> criterion]

\* Faulty variant of transform_relationship: the nested filter inherits exclude.
transform_relationship_exclude(self, field_name, filter_arg, model, value) ==
    LET field == Relationship(model, field_name)
        property_filter == IF field.uselist THEN "any" ELSE "has"
        criterion == transform_filter(Filter(join(filter_arg), value,
                                             self.exclude),
                                      field.target)
    IN IF IsRaise(criterion) THEN criterion
       ELSE [node |-> property_filter, rel |-> field_name,
             model |-> model, criterion |-> criterion]

transform_relationship(self, field_name, filter_arg, model, value) ==
    LET field == Relationship(model, field_name)
        property_filter == IF field.uselist THEN "any" ELSE "has"
        criterion == transform_filter(Filter(join(filter_arg), value, FALSE),
                                      field.target)
    IN IF IsRaise(criterion) THEN criterion
       ELSE [node |-> property_filter, rel |-> field_name,
             model |-> model, criterion |-> criterion]

\* Faulty variant of transform_filter: the length check is off by one.
transform_filter_long_args(self, model) ==
    LET parts == split(self.field)
        field_name == Head(parts)
        filter_arg == Tail(parts)
        filter_object ==
            IF ~HasProperty(model, field_name) THEN Raise("AttributeError")
            ELSE IF IsRelationship(model, field_name)
            THEN transform_relationship(self, field_name, filter_arg, model,
                                        self.value)
            ELSE IF Len(filter_arg) > 2 THEN Raise("ValueError")
            ELSE IF Len(filter_arg) = 0 THEN Raise("IndexError")
            ELSE transform_simple_filter(self, field_name, filter_arg[1],
                                         model, self.value)
    IN IF IsRaise(filter_object) THEN filter_object
       ELSE IF self.exclude THEN [node |-> "not", arg |-> filter_object]
       ELSE filter_object

transform_filter(self, model) ==
    LET parts == split(self.field)
        field_name == Head(parts)
        filter_arg == Tail(parts)
        filter_object ==
            IF ~HasProperty(model, field_name) THEN Raise("AttributeError")
            ELSE IF IsRelationship(model, field_name)
            THEN transform_relationship(self, field_name, filter_arg, model,
                                        self.value)
            ELSE IF Len(filter_arg) > 1 THEN Raise("ValueError")
            ELSE IF Len(filter_arg) = 0 THEN Raise("IndexError")
            ELSE transform_simple_filter(self, field_name, filter_arg[1],
                                         model, self.value)
    IN IF IsRaise(filter_object) THEN filter_object
       ELSE IF self.exclude THEN [node |-> "not", arg |-> filter_object]
       ELSE filter_object

\* The calls of transform_filter that one call makes, itself first: the
\* field and the model each of them is given.  A call goes on to a nested
\* one only through transform_relationship.
RECURSIVE transform_filter_calls(_, _)

\* Faulty variant of transform_filter_calls: the nested filter is given the
\* whole field again.
transform_filter_calls_whole(self, model) ==
    LET field_name == Head(split(self.field))
    IN <<[field |-> self.field, model |-> model]>> \o
       (IF HasProperty(model, field_name) /\ IsRelationship(model, field_name)
        THEN transform_filter_calls(Filter(self.field, self.value, FALSE),
                                    Relationship(model, field_name).target)
        ELSE <<>>)

transform_filter_calls(self, model) ==
    LET parts == split(self.field)
        field_name == Head(parts)
        filter_arg == Tail(parts)
    IN <<[field |-> self.field, model |-> model]>> \o
       (IF HasProperty(model, field_name) /\ IsRelationship(model, field_name)
        THEN transform_filter_calls(Filter(join(filter_arg), self.value, FALSE),
                                    Relationship(model, field_name).target)
        ELSE <<>>)

\* The relationship hops a predicate went through: how deep its has / any
\* nodes nest.
RECURSIVE Nesting(_)
Nesting(p) ==
    IF p.node = "not" THEN Nesting(p.arg)
    ELSE IF p.node \in {"has", "any"} THEN 1 + Nesting(p.criterion)
    ELSE 0

\* ------------------------------------------------------------------------
\* What the database does with a predicate
\* ------------------------------------------------------------------------

Bool3(b) == IF b THEN "T" ELSE "F"

\* A column comparison on one row, in the three-valued logic of SQL: IN of an
\* empty list is false whatever the column holds; IN of a list that holds
\* NULL and no match is unknown.
Compare(method, v, value) ==
    CASE method = "is_" -> Bool3(v = value[1])
      [] method = "__eq__" ->
            IF value[1] = NULL THEN Bool3(v = NULL)
            ELSE IF v = NULL THEN "N" ELSE Bool3(v = value[1])
      [] method = "in_" ->
            IF value = <<>> THEN "F"
            ELSE IF v = NULL THEN "N"
            ELSE IF \E i \in 1..Len(value) : value[i] = v THEN "T"
            ELSE IF \E i \in 1..Len(value) : value[i] = NULL THEN "N"
            ELSE "F"
      [] method = "__gt__" ->
            IF v = NULL \/ value[1] = NULL THEN "N" ELSE Bool3(v > value[1])
      [] method = "__ge__" ->
            IF v = NULL \/ value[1] = NULL THEN "N" ELSE Bool3(v >= value[1])
      [] method = "__lt__" ->
            IF v = NULL \/ value[1] = NULL THEN "N" ELSE Bool3(v < value[1])
      [] method = "__le__" ->
            IF v = NULL \/ value[1] = NULL THEN "N" ELSE Bool3(v <= value[1])

\* The rows of the relationship's target that belong to `row`.
Related(data, rel, row) ==
    IF rel.secondary
    THEN { t \in data[rel.target] :
             \E m \in data["M2MModel"] :
                m[rel.local] = row.id /\ m[rel.remote] = t.id }
    ELSE { t \in data[rel.target] :
             row[rel.local] # NULL /\ t[rel.remote] = row[rel.local] }

\* Character strings are sequences of code points.
lower(c) == IF c >= 65 /\ c <= 90 THEN c + 32 ELSE c

\* The characters str.isspace() holds for: tab, the line breaks, the
\* separators 28 to 31, the blank, and the spaces beyond ASCII.
Whitespace ==
    {9, 10, 11, 12, 13, 28, 29, 30, 31, 32, 133, 160, 5760, 8232, 8233, 8239,
     8287, 12288} \cup (8192..8202)

\* str.strip() with no argument: the whitespace at both ends is dropped.
RECURSIVE lstrip(_)
lstrip(string) ==
    IF string # <<>> /\ Head(string) \in Whitespace
    THEN lstrip(Tail(string))
    ELSE string

RECURSIVE rstrip(_)
rstrip(string) ==
    IF string # <<>> /\ string[Len(string)] \in Whitespace
    THEN rstrip(SubSeq(string, 1, Len(string) - 1))
    ELSE string

strip(string) == rstrip(lstrip(string))

\* The decimal digits of a natural number.
RECURSIVE Digits(_)
Digits(n) ==
    IF n < 10 THEN <<48 + n>>
    ELSE Digits(n \div 10) \o <<48 + (n % 10)>>

\* CAST(column AS VARCHAR): a text column holds one character, the other
\* columns hold integers.
cast_string(attr, v) ==
    IF v = NULL THEN <<NULL>>
    ELSE IF attr = "text" THEN <<v>>
    ELSE Digits(v)

\* string ILIKE pattern: % stands for any run of characters, _ for one.
RECURSIVE ilike(_, _)
ilike(string, pattern) ==
    IF pattern = <<>> THEN string = <<>>
    ELSE IF Head(pattern) = 37
    THEN ilike(string, Tail(pattern))
         \/ (string # <<>> /\ ilike(Tail(string), pattern))
    ELSE IF string = <<>> THEN FALSE
    ELSE IF Head(pattern) = 95 THEN ilike(Tail(string), Tail(pattern))
    ELSE lower(Head(string)) = lower(Head(pattern))
         /\ ilike(Tail(string), Tail(pattern))

RECURSIVE Eval(_, _, _, _)
Eval(data, p, model, row) ==
    CASE p.node = "cmp" -> Compare(p.method, row[p.attr], p.value)
      [] p.node \in {"any", "has"} ->
            LET rel == Relationship(model, p.rel)
            IN Bool3(\E t \in Related(data, rel, row) :
                        Eval(data, p.criterion, rel.target, t) = "T")
      [] p.node = "not" ->
            LET inner == Eval(data, p.arg, model, row)
            IN IF inner = "T" THEN "F" ELSE IF inner = "F" THEN "T" ELSE "N"
      [] p.node = "ilike" ->
            IF row[p.attr] = NULL THEN "N"
            ELSE Bool3(ilike(cast_string(p.attr, row[p.attr]), p.pattern))
      [] p.node = "or" ->
            \* an or_() of nothing renders as no condition at all
            IF p.clauses = <<>> THEN "T"
            ELSE IF \E i \in 1..Len(p.clauses) :
                        Eval(data, p.clauses[i], model, row) = "T" THEN "T"
            ELSE IF \A i \in 1..Len(p.clauses) :
                        Eval(data, p.clauses[i], model, row) = "F" THEN "F"
            ELSE "N"

\* A search value: None, or a string.
NoneValue == [none |-> TRUE, chars |-> <<>>]

StrValue(chars) == [none |-> FALSE, chars |-> chars]

\* Truth value of the search value: None and the empty string are false.
Falsy(value) == value.none \/ value.chars = <<>>

\* transform_search_filter: or_() of one ILIKE '%<stripped value>%' on the
\* cast of each search field, and of nothing when the value is falsy.  The
\* comprehension tests the value before it reads the attribute: with a
\* value that is not falsy, getattr of a name the model does not have
\* raises AttributeError; with a falsy one no attribute is read.
transform_search_filter(model, search_fields, value) ==
    IF Falsy(value) THEN [node |-> "or", clauses |-> <<>>]
    ELSE IF \E i \in 1..Len(search_fields) :
                ~HasProperty(model, search_fields[i])
    THEN Raise("AttributeError")
    ELSE [node |-> "or",
          clauses |-> [i \in 1..Len(search_fields) |->
                          [node |-> "ilike", attr |-> search_fields[i],
                           pattern |-> <<37>> \o strip(value.chars)
                                       \o <<37>>]]]

\* The primary keys a WHERE with the predicates (all of them) selects.
SelectRows(data, model, preds) ==
    { row.id : row \in
        { r \in data[model] :
            \A i \in 1..Len(preds) : Eval(data, preds[i], model, r) = "T" } }

\* ------------------------------------------------------------------------
\* Statements (sqlalchemy.select) and the builders of BaseRepository
\* (repositories/core.py)
\* ------------------------------------------------------------------------

\* The statement argument left at None.
NoStatement ==
    [model |-> "None", options |-> <<>>, order_by |-> <<>>,
     whereclause |-> <<>>, offset |-> NULL, limit |-> NULL, applied |-> <<>>]

\* BaseRepository.select_statement: sqlalchemy.select(self.model).
select_statement(model) ==
    [model |-> model, options |-> <<>>, order_by |-> <<>>,
     whereclause |-> <<>>, offset |-> NULL, limit |-> NULL, applied |-> <<>>]

\* `statement if statement is not None else self.select_statement`
OrSelect(statement, model) ==
    IF statement.model # "None" THEN statement ELSE select_statement(model)

IsFilter(where_filter) == "field" \in DOMAIN where_filter

\* The first error of a sequence of transformed filters, or the sequence.
FirstRaise(preds) ==
    IF \E i \in 1..Len(preds) : IsRaise(preds[i])
    THEN preds[CHOOSE i \in 1..Len(preds) :
                /\ IsRaise(preds[i])
                /\ \A j \in 1..(i - 1) : ~IsRaise(preds[j])]
    ELSE [node |-> "list", items |-> preds]

process_where_filters(model, where) ==
    FirstRaise([i \in 1..Len(where) |->
                    IF IsFilter(where[i])
                    THEN transform_filter(where[i], model)
                    ELSE where[i]])

\* Faulty variant of process_filters_by_filters: no keyword is routed through the
\* Filter DSL, all are left for filter_by.
process_filters_by_filters_plain(model, filters_by) ==
    [node |-> "pair", processed |-> <<>>, left_out |-> filters_by]

\* Keyword filters are a sequence of [field, value] pairs in call order.
\* Returns the transformed DSL filters and the keywords left for filter_by.
process_filters_by_filters(model, filters_by) ==
    LET dsl == SelectSeq(filters_by, LAMBDA kv : HasSep(kv.field))
        plain == SelectSeq(filters_by, LAMBDA kv : ~HasSep(kv.field))
        done == FirstRaise([i \in 1..Len(dsl) |->
                    transform_filter(Filter(dsl[i].field, dsl[i].value, FALSE),
                                     model)])
    IN IF IsRaise(done) THEN done
       ELSE [node |-> "pair", processed |-> done.items, left_out |-> plain]

\* Select.filter_by(**kwargs): one equality per keyword against the entity;
\* a keyword that names no attribute of the entity is InvalidRequestError.
filter_by(model, kwargs) ==
    FirstRaise([i \in 1..Len(kwargs) |->
        IF Len(kwargs[i].field) = 1 /\ kwargs[i].field[1] \in Columns[model]
        THEN [node |-> "cmp", attr |-> kwargs[i].field[1],
              method |-> "__eq__", value |-> kwargs[i].value]
        ELSE Raise("InvalidRequestError")])

\* A builder's result: the statement, or the error it raised.
Built(statement) == [node |-> "statement", statement |-> statement]

Applied(statement, name) ==
    [statement EXCEPT !.applied = Append(@, name)]

\* statement.where(*where, *processed).filter_by(**left_out), given what
\* the two process_* calls returned or raised.
where_filter_by(model, select, processed_where_filters, processed) ==
    LET equalities == filter_by(model, processed.left_out)
    IN IF IsRaise(processed_where_filters) THEN processed_where_filters
       ELSE IF IsRaise(processed) THEN processed
       ELSE IF IsRaise(equalities) THEN equalities
       ELSE Built(Applied(
                [select EXCEPT !.whereclause =
                    @ \o processed_where_filters.items
                      \o processed.processed \o equalities.items],
                "filter"))

get_filter_statement(model, statement, where, filters_by) ==
    where_filter_by(model, OrSelect(statement, model),
                    process_where_filters(model, where),
                    process_filters_by_filters(model, filters_by))

\* ------------------------------------------------------------------------
\* Ordering clauses (repositories/ordering.py). A string is the sequence of
\* its pieces, a leading "-" being a piece of its own: "-text" is
\* <<"-", "text">>.
\* ------------------------------------------------------------------------

startswith(string, prefix) == string # <<>> /\ Head(string) = prefix

\* Faulty variant of OrderingEnumMeta_new: members generated for the
\* generated members too.
OrderingEnumMeta_new_twice(declared) ==
    LET once == declared
            \o [i \in 1..Len(declared) |->
                    [name |-> declared[i].name \o <<"_desc">>,
                     value |-> <<"-">> \o declared[i].value]]
    IN [node |-> "enum",
        members |-> once \o [i \in 1..Len(declared) |->
                    [name |-> once[Len(declared) + i].name \o <<"_desc">>,
                     value |-> <<"-">> \o once[Len(declared) + i].value]]]

\* OrderingEnumMeta.__new__: the class dictionary holds the declared
\* members, [name, value] in declaration order; for each of them (the list
\* is taken before the loop) '<name>_desc' is set to '-<value>'. Setting a
\* name that is already a member is the enum dictionary's TypeError.
OrderingEnumMeta_new(declared) ==
    LET generated == [i \in 1..Len(declared) |->
                        [name |-> declared[i].name \o <<"_desc">>,
                         value |-> <<"-">> \o declared[i].value]]
        reused(i) == \/ \E j \in 1..Len(declared) :
                            declared[j].name = generated[i].name
                     \/ \E j \in 1..(i - 1) :
                            generated[j].name = generated[i].name
    IN IF \E i \in 1..Len(generated) : reused(i)
       THEN Raise("TypeError")
       ELSE [node |-> "enum", members |-> declared \o generated]

\* OrderingEnum.sql_clause: sqlalchemy.desc(self[1:]) for a value that
\* starts with "-", the member (a string) otherwise.
sql_clause(self) ==
    IF startswith(self.value, "-")
    THEN [label |-> Tail(self.value), desc |-> TRUE]
    ELSE [label |-> self.value, desc |-> FALSE]

\* An ordering clause handed to the repository: a plain string, or a member
\* of an OrderingEnum.
PlainClause(value) == [enum |-> FALSE, value |-> value]

EnumClause(name, value) == [enum |-> TRUE, name |-> name, value |-> value]

\* BaseRepository.process_ordering_clauses: a member gives its sql_clause, a
\* plain string is passed to order_by as it is (a label to resolve, in
\* ascending order).
process_ordering_clauses(clauses) ==
    [i \in 1..Len(clauses) |->
        IF clauses[i].enum THEN sql_clause(clauses[i])
        ELSE [label |-> clauses[i].value, desc |-> FALSE]]

\* ORDER BY resolves a label against the columns of the selected entity.
Resolves(model, clause) ==
    Len(clause.label) = 1 /\ clause.label[1] \in Columns[model]

\* BaseRepository.get_order_statement: statement.order_by(*clauses), the
\* clauses processed first.
get_order_statement(model, statement, clauses) ==
    Built(Applied(
        [OrSelect(statement, model) EXCEPT !.order_by =
            @ \o process_ordering_clauses(clauses)],
        "order"))

\* Faulty variant of get_pagination_statement: 0 is set like any number.
get_pagination_statement_zero(model, statement, offset, limit) ==
    LET select == OrSelect(statement, model)
        with_offset == IF offset # NULL
                       THEN [select EXCEPT !.offset = offset] ELSE select
        with_limit == IF limit # NULL
                      THEN [with_offset EXCEPT !.limit = limit]
                      ELSE with_offset
    IN Built(Applied(with_limit, "paginate"))

get_pagination_statement(model, statement, offset, limit) ==
    LET select == OrSelect(statement, model)
        with_offset == IF offset # NULL /\ offset # 0
                       THEN [select EXCEPT !.offset = offset] ELSE select
        with_limit == IF limit # NULL /\ limit # 0
                      THEN [with_offset EXCEPT !.limit = limit]
                      ELSE with_offset
    IN Built(Applied(with_limit, "paginate"))

\* A load target is a sequence of relationship names: one name, or a chain.
get_joined_load_statement(model, statement, targets) ==
    Built(Applied(
        [OrSelect(statement, model) EXCEPT !.options =
            @ \o [i \in 1..Len(targets) |->
                    [option |-> "joinedload", path |-> targets[i]]]],
        "joined_load"))

get_select_in_load_statement(model, statement, targets) ==
    Built(Applied(
        [OrSelect(statement, model) EXCEPT !.options =
            @ \o [i \in 1..Len(targets) |->
                    [option |-> "selectinload", path |-> targets[i]]]],
        "select_in_load"))

\* An annotation is a query-expression attribute on its own, or a tuple of
\* the attribute and the expression to load it with.
Annotation(attribute) ==
    [tuple |-> FALSE, attribute |-> attribute, expression |-> "none"]

TupleAnnotation(attribute, expression) ==
    [tuple |-> TRUE, attribute |-> attribute, expression |-> expression]

\* A tuple goes to with_expression, anything else to undefer.
get_annotated_statement(model, statement, annotations) ==
    Built(Applied(
        [OrSelect(statement, model) EXCEPT !.options =
            @ \o [i \in 1..Len(annotations) |->
                    IF annotations[i].tuple
                    THEN [option |-> "with_expression",
                          path |-> <<annotations[i].attribute>>]
                    ELSE [option |-> "undefer",
                          path |-> <<annotations[i].attribute>>]]],
        "annotate"))

\* The last step of get_fetch_statement: the window, on the filtered
\* statement; an error of the filter step goes up as it is.
paginate_filtered(model, filtered, offset, limit) ==
    IF IsRaise(filtered) THEN filtered
    ELSE get_pagination_statement(model, filtered.statement, offset, limit)

\* The keyword arguments of get_fetch_statement / fetch.
FetchArgs(statement, offset, limit, joined_load, select_in_load, annotations, ordering_clauses, where, filters_by) ==
    [statement |-> statement, offset |-> offset, limit |-> limit,
     joined_load |-> joined_load, select_in_load |-> select_in_load,
     annotations |-> annotations, ordering_clauses |-> ordering_clauses,
     where |-> where, filters_by |-> filters_by]

\* Faulty variant of get_fetch_statement: the window is set before the filter.
get_fetch_statement_paginate_first(model, a) ==
    LET joined == get_joined_load_statement(model, a.statement, a.joined_load)
        selectin == get_select_in_load_statement(model, joined.statement,
                                                 a.select_in_load)
        annotated == get_annotated_statement(model, selectin.statement,
                                             a.annotations)
        ordered == get_order_statement(model, annotated.statement,
                                       a.ordering_clauses)
        paginated == get_pagination_statement(model, ordered.statement,
                                              a.offset, a.limit)
    IN get_filter_statement(model, paginated.statement, a.where,
                            a.filters_by)

get_fetch_statement(model, a) ==
    LET joined == get_joined_load_statement(model, a.statement, a.joined_load)
        selectin == get_select_in_load_statement(model, joined.statement,
                                                 a.select_in_load)
        annotated == get_annotated_statement(model, selectin.statement,
                                             a.annotations)
        ordered == get_order_statement(model, annotated.statement,
                                       a.ordering_clauses)
    IN paginate_filtered(model,
                         get_filter_statement(model, ordered.statement,
                                              a.where, a.filters_by),
                         a.offset, a.limit)

\* ------------------------------------------------------------------------
\* What the database returns for a statement
\* ------------------------------------------------------------------------

RowById(data, model, id) == CHOOSE r \in data[model] : r.id = id

\* The sort order of one key: NULL counts as larger than every value, so it
\* comes last ascending and first descending.
Smaller(x, y) ==
    IF x = NULL THEN FALSE
    ELSE IF y = NULL THEN TRUE
    ELSE x < y

\* Row a sorts strictly before row b under the ORDER BY list.
RECURSIVE Precedes(_, _, _)
Precedes(a, b, order_by) ==
    IF order_by = <<>> THEN FALSE
    ELSE LET k == Head(order_by)
             c == k.label[1]
         IN IF a[c] = b[c] THEN Precedes(a, b, Tail(order_by))
            ELSE IF k.desc THEN Smaller(b[c], a[c])
            ELSE Smaller(a[c], b[c])

Min(a, b) == IF a < b THEN a ELSE b

Window(rows, offset, limit) ==
    LET skipped == SubSeq(rows, (IF offset = NULL THEN 0 ELSE offset) + 1,
                          Len(rows))
    IN IF limit = NULL THEN skipped
       ELSE SubSeq(skipped, 1, Min(limit, Len(skipped)))

\* Every sequence of primary keys the store may return for the statement:
\* the selected rows in any order the ORDER BY list allows, then the window.
ResultSeqs(data, statement) ==
    LET ids == SelectRows(data, statement.model, statement.whereclause)
        n == Cardinality(ids)
        row(id) == RowById(data, statement.model, id)
    IN { Window(s, statement.offset, statement.limit) :
         s \in { t \in [1..n -> ids] :
                  /\ \A i, j \in 1..n : i # j => t[i] # t[j]
                  /\ \A i, j \in 1..n :
                        i < j => ~Precedes(row(t[j]), row(t[i]),
                                           statement.order_by) } }

\* ScalarResult.unique(): drop repeated rows, keep first occurrences.
Unique(rows) ==
    SelectSeq([i \in 1..Len(rows) |->
                  IF \E j \in 1..(i - 1) : rows[j] = rows[i]
                  THEN NULL ELSE rows[i]],
              LAMBDA x : x # NULL)

Range(seq) == { seq[i] : i \in 1..Len(seq) }

\* ON DELETE CASCADE of every foreign key (tests/alembic/versions): rows
\* whose referenced row is gone go too, until nothing dangles.
Dangling(data) ==
    [TestModel |-> { t \in data.TestModel :
                       \A r \in data.RelatedModel : r.id # t.related_model_id },
     RelatedModel |-> { r \in data.RelatedModel :
                          /\ r.test_model_id # NULL
                          /\ \A t \in data.TestModel : t.id # r.test_model_id },
     M2MModel |-> { m \in data.M2MModel :
                      \/ \A t \in data.TestModel : t.id # m.test_model_id
                      \/ \A r \in data.RelatedModel :
                            r.id # m.related_model_id }]

RECURSIVE Cascade(_)
Cascade(data) ==
    IF \A m \in Models : Dangling(data)[m] = {} THEN data
    ELSE Cascade([m \in Models |-> data[m] \ Dangling(data)[m]])

\* ------------------------------------------------------------------------
\* Repository operations: the session calls they make, and their outcome
\* ------------------------------------------------------------------------

\* An operation that raised while building its statement.
Failed(error) == [calls |-> <<>>, result |-> error]

\* The path of a load option runs through a to-many relationship.
RECURSIVE LoadsCollection(_, _)
LoadsCollection(model, path) ==
    IF path = <<>> THEN FALSE
    ELSE IF ~IsRelationship(model, Head(path)) THEN FALSE
    ELSE \/ Relationship(model, Head(path)).uselist
         \/ LoadsCollection(Relationship(model, Head(path)).target,
                            Tail(path))

\* The statement holds a joined eager load against a collection: its result
\* hands out rows only after unique() was called on it.
RequiresUnique(statement) ==
    \E i \in 1..Len(statement.options) :
        /\ statement.options[i].option = "joinedload"
        /\ LoadsCollection(statement.model, statement.options[i].path)

\* session.scalars on a built statement (not reached when building raised):
\* the possible outcomes, one per order of the rows.  The result is a handle
\* no row has been taken from: it holds the rows it will give, and whether
\* unique() has to be called on it before the first of them is taken.
scalars(data, built) ==
    IF IsRaise(built) THEN { Failed(built) }
    ELSE IF \E i \in 1..Len(built.statement.order_by) :
                ~Resolves(built.statement.model, built.statement.order_by[i])
    THEN { [calls |-> <<"scalars">>, result |-> Raise("CompileError")] }
    ELSE { [calls |-> <<"scalars">>,
            result |-> [node |-> "ScalarResult", rows |-> rows,
                        requires_unique |->
                            RequiresUnique(built.statement)]] :
           rows \in ResultSeqs(data, built.statement) }

\* ScalarResult.unique(): the handle that gives each row once.
ScalarResult_unique(scalar_result) ==
    [node |-> "ScalarResult", rows |-> Unique(scalar_result.rows),
     requires_unique |-> FALSE]

\* ScalarResult.all(): the rows of the handle; the first row taken from a
\* handle that requires unique() and did not get it ends in
\* InvalidRequestError.
ScalarResult_all(scalar_result) ==
    IF scalar_result.requires_unique /\ scalar_result.rows # <<>>
    THEN Raise("InvalidRequestError")
    ELSE [node |-> "rows", rows |-> scalar_result.rows]

\* ScalarResult.first(): the first row of the handle, None when it has none.
ScalarResult_first(scalar_result) ==
    IF scalar_result.requires_unique /\ scalar_result.rows # <<>>
    THEN Raise("InvalidRequestError")
    ELSE [node |-> "first",
          first |-> IF scalar_result.rows = <<>> THEN NULL
                    ELSE scalar_result.rows[1]]

\* BaseRepository.fetch: the handle of session.scalars on the fetch
\* statement, after unique() when asked; no row is taken here.
fetch(data, model, a, unique) ==
    { IF IsRaise(o.result) \/ ~unique THEN o
      ELSE [calls |-> o.calls, result |-> ScalarResult_unique(o.result)] :
      o \in scalars(data, get_fetch_statement(model, a)) }

\* BaseRepository.fetch_all: all() on the handle of fetch.
fetch_all(data, model, a, unique) ==
    { IF IsRaise(o.result) THEN o
      ELSE [calls |-> o.calls, result |-> ScalarResult_all(o.result)] :
      o \in fetch(data, model, a, unique) }

\* BaseRepository.fetch_first: first() on the handle of fetch.
fetch_first(data, model, a, unique) ==
    { IF IsRaise(o.result) THEN o
      ELSE [calls |-> o.calls, result |-> ScalarResult_first(o.result)] :
      o \in fetch(data, model, a, unique) }

\* `scalar or 0`: what session.scalar returned, 0 when that is None or 0.
or_zero(scalar) == IF scalar = NULL \/ scalar = 0 THEN 0 ELSE scalar

\* `scalar or False`, on the boolean that SELECT EXISTS returns.
or_false(scalar) == IF scalar THEN scalar ELSE FALSE

\* Faulty variant of count: the session is called before the filters are looked at.
count_session_first(data, model, where, filters_by) ==
    LET processed == process_where_filters(model, where)
        equalities == filter_by(model, filters_by)
    IN IF IsRaise(processed) THEN [calls |-> <<"scalar">>, result |-> processed]
       ELSE IF IsRaise(equalities)
       THEN [calls |-> <<"scalar">>, result |-> equalities]
       ELSE [calls |-> <<"scalar">>,
             result |-> [node |-> "value",
                         value |-> or_zero(Cardinality(SelectRows(data,
                                model,
                                processed.items \o equalities.items)))]]

count(data, model, where, filters_by) ==
    LET processed == process_where_filters(model, where)
        equalities == filter_by(model, filters_by)
    IN IF IsRaise(processed) THEN Failed(processed)
       ELSE IF IsRaise(equalities) THEN Failed(equalities)
       ELSE [calls |-> <<"scalar">>,
             result |-> [node |-> "value",
                         value |-> or_zero(Cardinality(SelectRows(data,
                                model,
                                processed.items \o equalities.items)))]]

\* Faulty variant of exists: the where filters are left out of the subquery.
exists_any_row(data, model, where, filters_by) ==
    LET processed == process_where_filters(model, where)
        equalities == filter_by(model, filters_by)
    IN IF IsRaise(processed) THEN Failed(processed)
       ELSE IF IsRaise(equalities) THEN Failed(equalities)
       ELSE [calls |-> <<"scalar">>,
             result |-> [node |-> "value",
                         value |-> or_false(SelectRows(data, model,
                                                equalities.items) # {})]]

exists(data, model, where, filters_by) ==
    LET processed == process_where_filters(model, where)
        equalities == filter_by(model, filters_by)
    IN IF IsRaise(processed) THEN Failed(processed)
       ELSE IF IsRaise(equalities) THEN Failed(equalities)
       ELSE [calls |-> <<"scalar">>,
             result |-> [node |-> "value",
                         value |-> or_false(SelectRows(data, model,
                                processed.items \o equalities.items) # {})]]

\* BaseRepository.delete_batch: the rows the DELETE removes, and the data
\* after it.
\* The tables after the DELETE of the rows with the keys `gone`; the
\* foreign keys of the three related tables take their rows along.
Deleted(data, model, gone) ==
    IF model \in Models
    THEN Cascade([data EXCEPT ![model] = { r \in @ : r.id \notin gone }])
    ELSE [data EXCEPT ![model] = { r \in @ : r.id \notin gone }]

\* Faulty variant of delete_batch: the rows are marked, not removed.
delete_batch_mark(data, model, where, filters_by) ==
    LET processed == process_where_filters(model, where)
        equalities == filter_by(model, filters_by)
        gone == SelectRows(data, model, processed.items \o equalities.items)
    IN IF IsRaise(processed) THEN Failed(processed) @@ [data |-> data]
       ELSE IF IsRaise(equalities) THEN Failed(equalities) @@ [data |-> data]
       ELSE [calls |-> <<"execute">>,
             result |-> [node |-> "deleted", rows |-> gone],
             data |-> [data EXCEPT ![model] =
                        { IF r.id \in gone THEN [r EXCEPT !.deleted = 1]
                          ELSE r : r \in @ }]]

delete_batch(data, model, where, filters_by) ==
    LET processed == process_where_filters(model, where)
        equalities == filter_by(model, filters_by)
        gone == SelectRows(data, model, processed.items \o equalities.items)
    IN IF IsRaise(processed) THEN Failed(processed) @@ [data |-> data]
       ELSE IF IsRaise(equalities) THEN Failed(equalities) @@ [data |-> data]
       ELSE [calls |-> <<"execute">>,
             result |-> [node |-> "deleted", rows |-> gone],
             data |-> Deleted(data, model, gone)]

\* Columns of the table: those the queries of this model look at, and the
\* two timestamps of TimeStampedMixin.
TableColumns(model) == Columns[model] \cup {"created", "modified"}

\* The columns declared nullable=True, table by table.
Nullable ==
    [TestModel |-> {},
     RelatedModel |-> {"test_model_id"},
     M2MModel |-> {},
     SoftDeleteTestModel |-> {"deleted"}]

\* Columns that are NOT NULL.
NotNull(model) == TableColumns(model) \ Nullable[model]

\* BaseModel.as_dict: every column whose attribute can be read; an expired
\* attribute cannot (MissingGreenlet is suppressed) and is left out.
as_dict(model, instance) ==
    [c \in { n \in TableColumns(model) : n \in instance.loaded } |->
        instance.fields[c]]

\* BaseRepository.model_as_dict
model_as_dict(model, instance, exclude_fields) ==
    [c \in { n \in DOMAIN as_dict(model, instance) :
                n \notin Range(exclude_fields) } |->
        as_dict(model, instance)[c]]

\* BaseRepository.objects_as_dict
objects_as_dict(model, objects, exclude_fields) ==
    [i \in 1..Len(objects) |->
        model_as_dict(model, objects[i], exclude_fields)]

\* The exclude_fields parameter: what the caller passed, () when nothing.
Passed(exclude_fields) ==
    IF exclude_fields.given THEN exclude_fields.names ELSE <<>>

\* `exclude_fields or default`: the default when exclude_fields is empty.
or_default(exclude_fields, default) ==
    IF exclude_fields = <<>> THEN default ELSE exclude_fields

default_exclude_bulk_create_fields == <<"created", "modified", "id">>

default_exclude_bulk_update_fields == <<"created", "modified">>

\* A row of the INSERT violates a NOT NULL constraint: NULL given, or
\* nothing given for a column without a default.  The field maps are the
\* VALUES of the statement (insert(model).values(maps), with no parameters
\* beside it), so the statement is sent as it is built: a None of a map is
\* a NULL of the row, whether the column has a default or not.
RowRefused(model, d) ==
    \/ \E c \in DOMAIN d : c \in NotNull(model) /\ d[c] = NULL
    \/ \E c \in NotNull(model) \ {"id", "created", "modified"} :
            c \notin DOMAIN d

InsertRefused(model, dicts) ==
    \E i \in 1..Len(dicts) : RowRefused(model, dicts[i])

\* The numbers of keys a refused INSERT may have taken, when the rows
\* leave the key to its default.  The repository leaves it to the
\* database: a key counter that follows the stored rows takes none; a
\* sequence (the PostgreSQL serial of the tests' tables) gives a key to
\* each row before the row is checked and does not take it back, so it
\* may have gone as far as the first refused row.
Consumed(model, dicts) ==
    IF ~InsertRefused(model, dicts) \/ "id" \in DOMAIN dicts[1] THEN {0}
    ELSE 0..(CHOOSE i \in 1..Len(dicts) :
                /\ RowRefused(model, dicts[i])
                /\ \A j \in 1..(i - 1) : ~RowRefused(model, dicts[j]))

\* The rows a multi-row INSERT creates: keys from the sequence, in the order
\* of the VALUES list.
Inserted(model, dicts, first_id) ==
    { [c \in Columns[model] |->
          IF c = "id" /\ c \notin DOMAIN dicts[i] THEN first_id + i - 1
          ELSE dicts[i][c]] : i \in 1..Len(dicts) }

\* Faulty variant of insert_batch: one INSERT per object.
insert_batch_each(data, model, objects, exclude_fields, first_id) ==
    LET dicts == objects_as_dict(model, objects,
            or_default(Passed(exclude_fields),
                       default_exclude_bulk_create_fields))
    IN IF objects = <<>>
       THEN [calls |-> <<>>, result |-> [node |-> "list", ids |-> {}],
             dicts |-> <<>>, data |-> data]
       ELSE IF InsertRefused(model, dicts)
       THEN [calls |-> <<"scalars">>, result |-> Raise("IntegrityError"),
             dicts |-> dicts, data |-> data]
       ELSE [calls |-> [i \in 1..Len(objects) |-> "scalars"] \o <<"flush">>,
             result |-> [node |-> "list",
                         ids |-> { r.id : r \in Inserted(model, dicts,
                                                         first_id) }],
             dicts |-> dicts,
             data |-> [data EXCEPT ![model] =
                        @ \cup Inserted(model, dicts, first_id)]]

\* BaseRepository.insert_batch: nothing for no objects; else the field maps,
\* one INSERT .. RETURNING through session.scalars, a flush, the new rows.
insert_batch(data, model, objects, exclude_fields, first_id) ==
    LET dicts == objects_as_dict(model, objects,
            or_default(Passed(exclude_fields),
                       default_exclude_bulk_create_fields))
    IN IF objects = <<>>
       THEN [calls |-> <<>>, result |-> [node |-> "list", ids |-> {}],
             dicts |-> <<>>, data |-> data]
       ELSE IF InsertRefused(model, dicts)
       THEN [calls |-> <<"scalars">>, result |-> Raise("IntegrityError"),
             dicts |-> dicts, data |-> data]
       ELSE [calls |-> <<"scalars", "flush">>,
             result |-> [node |-> "list",
                         ids |-> { r.id : r \in Inserted(model, dicts,
                                                         first_id) }],
             dicts |-> dicts,
             data |-> [data EXCEPT ![model] =
                        @ \cup Inserted(model, dicts, first_id)]]

\* The row after the bulk UPDATE by primary key: the columns of the field
\* map with its key are set.
Updated(model, dicts, row) ==
    IF \E i \in 1..Len(dicts) : dicts[i].id = row.id
    THEN LET d == dicts[CHOOSE i \in 1..Len(dicts) :
                        /\ dicts[i].id = row.id
                        /\ \A j \in (i + 1)..Len(dicts) :
                                dicts[j].id # row.id]
         IN [c \in Columns[model] |->
                IF c \in DOMAIN d THEN d[c] ELSE row[c]]
    ELSE row

\* BaseRepository.update_batch: nothing for no objects; else the field maps,
\* one UPDATE through session.execute with the maps as parameters (refused
\* when a map has no primary key), and a flush.
update_batch(data, model, objects, exclude_fields) ==
    LET dicts == objects_as_dict(model, objects,
            or_default(Passed(exclude_fields),
                       default_exclude_bulk_update_fields))
    IN IF objects = <<>>
       THEN [calls |-> <<>>, result |-> [node |-> "none"],
             dicts |-> <<>>, data |-> data]
       ELSE IF \E i \in 1..Len(dicts) : "id" \notin DOMAIN dicts[i]
       THEN [calls |-> <<"execute">>,
             result |-> Raise("InvalidRequestError"),
             dicts |-> dicts, data |-> data]
       ELSE [calls |-> <<"execute", "flush">>, result |-> [node |-> "none"],
             dicts |-> dicts,
             data |-> [data EXCEPT ![model] =
                        { Updated(model, dicts, r) : r \in @ }]]

\* statement.with_only_columns(field): the column is selected in place of
\* the entity, so no instance is loaded and the load options of the
\* statement have nothing to act on.
with_only_columns(built) ==
    IF IsRaise(built) THEN built
    ELSE Built([built.statement EXCEPT !.options = <<>>])

\* BaseRepository.values: the column's value for each row of the statement,
\* which is the given statement when there is one; all() on the handle of
\* session.scalars.
values(data, model, field, a) ==
    { IF IsRaise(o.result) \/ IsRaise(ScalarResult_all(o.result))
      THEN [calls |-> o.calls,
            result |-> IF IsRaise(o.result) THEN o.result
                       ELSE ScalarResult_all(o.result)]
      ELSE [calls |-> o.calls,
            result |-> [node |-> "rows",
                        rows |-> [i \in 1..Len(o.result.rows) |->
                            RowById(data, model, o.result.rows[i])[field]]]] :
      o \in scalars(data,
                    with_only_columns(
                        IF a.statement.model # "None" THEN Built(a.statement)
                        ELSE get_fetch_statement(model, a))) }

\* BaseRepository.flush: session.flush writes the rows of the instances the
\* session holds pending, those the caller added to it on its own.
flush(data, model, pending) ==
    [calls |-> <<"flush">>,
     result |-> [node |-> "none"],
     data |-> [data EXCEPT ![model] =
                { r \in @ : \A p \in pending : p.id # r.id } \cup pending]]

\* attribute_names of save and refresh: None, or a sequence of names.
NoNames == [given |-> FALSE, names |-> <<>>]

\* Faulty variant of save: the refresh comes before the flush.
save_refresh_first(data, model, instance, refresh, attribute_names) ==
    [calls |-> IF refresh THEN <<"add", "refresh", "flush">>
               ELSE <<"add", "flush">>,
     result |-> [node |-> "instance", id |-> instance.id,
                 refreshed |-> IF refresh THEN attribute_names ELSE NoNames],
     data |-> [data EXCEPT ![model] =
                { r \in @ : r.id # instance.id } \cup {instance}]]

\* BaseRepository.save: add, flush (the instance's row is written: inserted,
\* or updated when the instance is persistent), refresh on demand with the
\* attribute names given; the instance is returned.
save(data, model, instance, refresh, attribute_names) ==
    [calls |-> IF refresh THEN <<"add", "flush", "refresh">>
               ELSE <<"add", "flush">>,
     result |-> [node |-> "instance", id |-> instance.id,
                 refreshed |-> IF refresh THEN attribute_names ELSE NoNames],
     data |-> [data EXCEPT ![model] =
                { r \in @ : r.id # instance.id } \cup {instance}]]

\* The flush of a session.delete, relationship by relationship (the unit of
\* work acts before the row's DELETE, so the foreign keys' ON DELETE CASCADE
\* finds nothing left to take along): the m2m_associations of the instance
\* (cascade "all, delete") are deleted; the rows of a to-many relationship
\* with the default cascade (TestModel.related_models,
\* RelatedModel.test_model_list) are kept and their foreign key is set to
\* NULL; to-one and view-only relationships are left alone.
Removed(data, model, instance) ==
    IF model = "TestModel"
    THEN [data EXCEPT
            !.TestModel = { r \in @ : r.id # instance.id },
            !.RelatedModel =
                { IF r.test_model_id = instance.id
                  THEN [r EXCEPT !.test_model_id = NULL] ELSE r : r \in @ },
            !.M2MModel = { m \in @ : m.test_model_id # instance.id }]
    ELSE IF model = "RelatedModel"
    THEN [data EXCEPT
            !.RelatedModel = { r \in @ : r.id # instance.id },
            !.TestModel =
                { IF t.related_model_id = instance.id
                  THEN [t EXCEPT !.related_model_id = NULL] ELSE t : t \in @ },
            !.M2MModel = { m \in @ : m.related_model_id # instance.id }]
    ELSE [data EXCEPT ![model] = { r \in @ : r.id # instance.id }]

\* BaseRepository.delete of a persistent instance: session.delete, flush.
\* TestModel.related_model_id is NOT NULL: the flush that would set it to
\* NULL for the rows of test_model_list is refused and nothing is deleted.
delete(data, model, instance) ==
    IF /\ model = "RelatedModel"
       /\ \E t \in data.TestModel : t.related_model_id = instance.id
    THEN [calls |-> <<"delete", "flush">>,
          result |-> Raise("IntegrityError"),
          data |-> data]
    ELSE [calls |-> <<"delete", "flush">>,
          result |-> [node |-> "none"],
          data |-> Removed(data, model, instance)]

\* An instance whose row is gone. After session.delete and a flush it is in
\* the session's deleted state: session.add of it is refused, and
\* session.delete of it and the flush find no row, which passes or ends in
\* an error when the unmatched DELETE is reported as one. After a
\* delete_batch the session still holds it as persistent: session.add
\* passes and the flush finds no row to update. The table is left as it is
\* in every case.
add_deleted(data) ==
    { [calls |-> <<"add">>, result |-> Raise("InvalidRequestError"),
       data |-> data],
      [calls |-> <<"add", "flush">>, result |-> Raise("StaleDataError"),
       data |-> data] }

delete_deleted(data) ==
    { [calls |-> <<"delete", "flush">>, result |-> [node |-> "none"],
       data |-> data],
      [calls |-> <<"delete", "flush">>, result |-> Raise("SAWarning"),
       data |-> data] }

Stored(data, model, instance) == \E r \in data[model] : r.id = instance.id

\* Faulty variant of the soft delete: the row is removed.
soft_delete_remove(data, model, instance, now) ==
    IF Stored(data, model, instance)
    THEN { delete(data, model, instance) }
    ELSE add_deleted(data)

\* BaseSoftDeleteRepository.delete: the marker is set to the time of the
\* call and the instance is saved; the method returns nothing.
soft_delete(data, model, instance, now) ==
    IF Stored(data, model, instance)
    THEN LET saved == save(data, model, [instance EXCEPT !.deleted = now],
                           FALSE, NoNames)
         IN { [calls |-> saved.calls, result |-> [node |-> "none"],
               data |-> saved.data] }
    ELSE add_deleted(data)

force_delete_soft(data, model, instance) ==
    IF Stored(data, model, instance)
    THEN { save(data, model, [instance EXCEPT !.deleted = 1], FALSE, NoNames) }
    ELSE delete_deleted(data)

\* BaseSoftDeleteRepository.force_delete: BaseRepository.delete.
force_delete(data, model, instance) ==
    IF Stored(data, model, instance)
    THEN { delete(data, model, instance) }
    ELSE delete_deleted(data)

\* ------------------------------------------------------------------------
\* Inputs
\* ------------------------------------------------------------------------

\* Operator tokens tried: the mapped ones and two that are not mapped.
Tokens == DOMAIN filter_args_mapping \cup {"not_in", "contains"}

ValueFor(attr, token) ==
    IF token = "is" THEN <<NULL>>
    ELSE IF attr = "text" THEN <<97>> ELSE <<1>>

\* field -> value pairs of the filters tried on each model.
SimplePairs(model) ==
    IF model = "TestModel"
    THEN { [field |-> <<a, SEP, t>>, value |-> ValueFor(a, t)] :
            a \in {"text", "number"}, t \in Tokens }
    ELSE IF model = "RelatedModel"
    THEN { [field |-> <<"test_model_id", SEP, t>>,
            value |-> ValueFor("test_model_id", t)] :
            t \in {"exact", "is", "in", "lt", "overlaps", "not_in"} }
    ELSE {}

ChainPairs(model) ==
    IF model = "TestModel"
    THEN { [field |-> <<"related_model", SEP, "test_model", SEP, "text", SEP,
                        "exact">>, value |-> <<97>>],
           [field |-> <<"related_models", SEP, "test_model_list", SEP, "text",
                        SEP, "exact">>, value |-> <<98>>],
           [field |-> <<"related_model", SEP, "test_model_id", SEP, "exact">>,
            value |-> <<1>>],
           [field |-> <<"related_model", SEP, "test_model_id", SEP, "is">>,
            value |-> <<NULL>>],
           [field |-> <<"related_models", SEP, "id", SEP, "in">>,
            value |-> <<1>>],
           [field |-> <<"m2m_related_models", SEP, "id", SEP, "in">>,
            value |-> <<1>>],
           [field |-> <<"m2m_associations", SEP, "related_model_id", SEP,
                        "in">>, value |-> <<1>>],
           [field |-> <<"related_model", SEP, "test_model_list", SEP,
                        "related_model", SEP, "id", SEP, "exact">>,
            value |-> <<1>>] }
    ELSE IF model = "RelatedModel"
    THEN { [field |-> <<"test_model", SEP, "text", SEP, "exact">>,
            value |-> <<97>>],
           [field |-> <<"test_model_list", SEP, "number", SEP, "gte">>,
            value |-> <<2>>] }
    ELSE {}

BadPairs(model) ==
    IF model = "TestModel"
    THEN { [field |-> <<"text", SEP, "exact", SEP, "in">>, value |-> <<97>>],
           [field |-> <<"number", SEP, "gt", SEP, "lt">>, value |-> <<1>>],
           [field |-> <<"id", SEP, "gt", SEP, "lt", SEP, "in">>,
            value |-> <<1>>],
           [field |-> <<"related_model", SEP, "text", SEP, "exact">>,
            value |-> <<97>>],
           [field |-> <<"related_model", SEP, "test_model_id", SEP, "gt", SEP,
                        "lt">>, value |-> <<1>>],
           [field |-> <<"related_model">>, value |-> <<1>>],
           [field |-> <<"related_model", SEP, "test_model", SEP,
                        "related_model">>, value |-> <<1>>],
           [field |-> <<"related_model", SEP, "exact">>, value |-> <<1>>],
           [field |-> <<"text">>, value |-> <<97>>],
           [field |-> <<"text", SEP>>, value |-> <<97>>],
           [field |-> <<"nope", SEP, "exact">>, value |-> <<1>>],
           [field |-> <<"m2m_related_model_id", SEP, "in">>,
            value |-> <<1>>] }
    ELSE IF model = "RelatedModel"
    THEN { [field |-> <<"test_model_id", SEP, "exact", SEP, "in">>,
            value |-> <<1>>] }
    ELSE {}

FilterInputs(model) ==
    { Filter(p.field, p.value, e) :
        p \in SimplePairs(model) \cup ChainPairs(model) \cup BadPairs(model),
        e \in BOOLEAN }

\* where / keyword arguments tried on the repository operations.
WhereInputs(model) ==
    IF model = "TestModel"
    THEN { <<>>,
           <<Filter(<<"text", SEP, "in">>, <<97>>, FALSE)>>,
           <<Filter(<<"text", SEP, "in">>, <<97>>, TRUE)>>,
           <<Filter(<<"number", SEP, "gte">>, <<2>>, FALSE)>>,
           <<Filter(<<"related_model", SEP, "test_model", SEP, "text", SEP,
                      "exact">>, <<97>>, FALSE)>>,
           <<[node |-> "cmp", attr |-> "id", method |-> "in_",
              value |-> <<1>>]>>,
           <<Filter(<<"text", SEP, "exact", SEP, "in">>, <<97>>, FALSE)>>,
           <<Filter(<<"text", SEP, "not_in">>, <<97>>, FALSE)>>,
           <<Filter(<<"nope", SEP, "exact">>, <<1>>, FALSE)>> }
    ELSE IF model = "RelatedModel"
    THEN { <<>>,
           <<Filter(<<"test_model_id", SEP, "exact">>, <<1>>, FALSE)>>,
           <<Filter(<<"test_model_id", SEP, "exact">>, <<1>>, TRUE)>>,
           <<Filter(<<"test_model_id", SEP, "exact", SEP, "in">>, <<1>>,
                    FALSE)>> }
    ELSE { <<>> }

KeywordInputs(model) ==
    IF model = "TestModel"
    THEN { <<>>,
           <<[field |-> <<"text">>, value |-> <<97>>]>>,
           <<[field |-> <<"text", SEP, "in">>, value |-> <<97>>]>>,
           <<[field |-> <<"text", SEP, "not_in">>, value |-> <<97>>]>>,
           <<[field |-> <<"number", SEP, "gt">>, value |-> <<1>>],
             [field |-> <<"text">>, value |-> <<98>>]>>,
           <<[field |-> <<"related_models", SEP, "id", SEP, "in">>,
              value |-> <<1>>]>>,
           <<[field |-> <<"text", SEP, "exact", SEP, "in">>,
              value |-> <<97>>]>>,
           <<[field |-> <<"nope">>, value |-> <<1>>]>> }
    ELSE IF model = "RelatedModel"
    THEN { <<>>,
           <<[field |-> <<"test_model_id">>, value |-> <<NULL>>]>>,
           <<[field |-> <<"test_model_id", SEP, "in">>, value |-> <<1>>]>> }
    ELSE { <<>> }

\* where and keywords together: one of them alone, or one fixed pair.
QueryInputs(model) ==
    { [where |-> w, kw |-> <<>>] : w \in WhereInputs(model) }
        \cup { [where |-> <<>>, kw |-> k] : k \in KeywordInputs(model) }
        \cup { [where |-> w, kw |-> k] :
                w \in { x \in WhereInputs(model) :
                          x # <<>> /\ IsFilter(x[1]) /\ x[1].exclude },
                k \in { y \in KeywordInputs(model) :
                          Len(y) = 1 /\ ~HasSep(y[1].field)
                          /\ y[1].field[1] \in Columns[model] } }

\* The statements handed to a builder: none, or one built before.
StatementInputs(model) ==
    { NoStatement,
      get_order_statement(model, NoStatement,
                          <<PlainClause(<<"id">>)>>).statement }

\* Ordering clauses tried on fetch_all: plain strings and members of
\* `class OrderingEnum(OrderingEnum): text = "text"`.
OrderingInputs ==
    { <<PlainClause(<<"text">>)>>,
      <<PlainClause(<<"-", "text">>)>>,
      <<EnumClause(<<"text">>, <<"text">>)>>,
      <<EnumClause(<<"text", "_desc">>, <<"-", "text">>)>>,
      <<PlainClause(<<"nope">>)>> }

\* Argument sets of get_fetch_statement and fetch.
FetchInputs(model) ==
    { FetchArgs(NoStatement, NULL, NULL, <<>>, <<>>, <<>>, <<>>, q.where, q.kw) :
        q \in QueryInputs(model) }
    \cup
    { FetchArgs(st, off, lim, <<>>, <<>>, <<>>, <<PlainClause(<<"id">>)>>, <<>>, <<>>) :
        st \in StatementInputs(model), off \in {NULL, 0, 1},
        lim \in {NULL, 0, 1} }
    \cup
    (IF model # "TestModel" THEN {} ELSE
     { FetchArgs(NoStatement, NULL, 1, jl, sl, an, <<PlainClause(<<"text">>)>>, w, <<>>) :
        jl \in { <<>>, << <<"related_model">>,
                          <<"related_model", "test_model_list">> >> },
        sl \in { <<>>, << <<"related_models">> >> },
        an \in { <<>>, <<Annotation("related_models_count")>>,
                 <<TupleAnnotation("related_models_count_query",
                                   "count_related_models")>> },
        w \in { <<Filter(<<"number", SEP, "gte">>, <<1>>, FALSE)>>,
                <<Filter(<<"text", SEP, "exact", SEP, "in">>, <<97>>,
                         FALSE)>> } }
     \cup
     { FetchArgs(NoStatement, NULL, NULL, <<>>, <<>>, <<>>, oc, <<>>, <<>>) :
        oc \in OrderingInputs })

\* Search fields tried: columns of TestModel, and a name it does not have.
\* Values tried: None, "", "a", "A", " a", "\ta\n", " ", "1", "z".
SearchFields == { <<>>, <<"text">>, <<"text", "id">>, <<"text", "nope">> }

SearchValues ==
    { NoneValue, StrValue(<<>>), StrValue(<<97>>), StrValue(<<65>>),
      StrValue(<<32, 97>>), StrValue(<<9, 97, 10>>), StrValue(<<32>>),
      StrValue(<<49>>), StrValue(<<122>>) }

\* New instances a caller may save: foreign keys point at stored rows.
NewInstances(model) ==
    IF model = "RelatedModel"
    THEN { [id |-> next_id[model], test_model_id |-> t] :
            t \in {NULL} \cup { r.id : r \in db.TestModel } }
    ELSE IF model = "TestModel"
    THEN { [id |-> next_id[model], text |-> x, number |-> x - 96,
            related_model_id |-> r.id] :
            x \in Texts, r \in db.RelatedModel }
    ELSE { [id |-> next_id[model], test_model_id |-> t.id,
            related_model_id |-> r.id] :
            t \in db.TestModel, r \in db.RelatedModel }

\* exclude_fields tried on the batch operations: not passed, passed empty,
\* and three lists.
ExcludeInputs ==
    { [given |-> FALSE, names |-> <<>>],
      [given |-> TRUE, names |-> <<>>],
      [given |-> TRUE, names |-> <<"created", "modified", "id">>],
      [given |-> TRUE, names |-> <<"created", "modified">>],
      [given |-> TRUE, names |-> <<"id">>] }

ExcludeDefault == [given |-> FALSE, names |-> <<>>]

\* A transient instance: key and timestamps not set yet.
Transient(model, row) ==
    [fields |-> [c \in TableColumns(model) |->
                    IF c \in {"id", "created", "modified"} THEN NULL
                    ELSE row[c]],
     loaded |-> TableColumns(model)]

\* A persistent instance: all columns loaded, or the server-side timestamps
\* expired by the flush that wrote them.
Persistent(model, row, expired) ==
    [fields |-> [c \in TableColumns(model) |->
                    IF c \in {"created", "modified"} THEN 1 ELSE row[c]],
     loaded |-> TableColumns(model) \ expired]

\* Objects to insert: up to MaxBatch transient instances of one kind.
InsertInputs(model) ==
    { [i \in 1..n |-> Transient(model, row)] :
        n \in 0..MaxBatch, row \in NewInstances(model) }

\* Objects to update: up to MaxBatch stored rows, the foreign key set anew.
UpdateInputs(model) ==
    IF model = "TestModel"
    THEN {<<>>} \cup
         { <<Persistent(model, [t EXCEPT !.related_model_id = r.id], e)>> :
            t \in db.TestModel, r \in db.RelatedModel,
            e \in {{}, {"created", "modified"}} } \cup
         { [i \in 1..MaxBatch |->
              Persistent(model,
                         [RowById(db, model, ids[i]) EXCEPT
                              !.related_model_id = r.id], {})] :
            ids \in { f \in [1..MaxBatch -> { t.id : t \in db[model] }] :
                        \A i, j \in 1..MaxBatch : i < j => f[i] < f[j] },
            r \in db.RelatedModel }
    ELSE {<<>>} \cup
         { <<Persistent(model, [t EXCEPT !.test_model_id = NULL], {})>> :
            t \in db.RelatedModel }

\* attribute_names tried on save.
AttributeNames == { NoNames, [given |-> TRUE, names |-> <<"id">>] }

\* Instances saved so far: every save takes the next id of its table.
Saved == next_id.TestModel + next_id.RelatedModel + next_id.M2MModel - 3

\* ------------------------------------------------------------------------
\* State
\* ------------------------------------------------------------------------

Call(op, model, where, kw, arg, outcome) ==
    [op |-> op, model |-> model, where |-> where, kw |-> kw, arg |-> arg,
     calls |-> outcome.calls, result |-> outcome.result]

NoArg == [none |-> TRUE]

NoCall ==
    Call("none", "TestModel", <<>>, <<>>, NoArg,
         [calls |-> <<>>, result |-> [node |-> "none"]])

\* The repository serves one caller, one call at a time: `last` holds the
\* call that has just ended until the caller takes its outcome (Return), or
\* the call that waits between two of its awaits until it goes on (Resume).
Idle == last.op = "none"

\* The session call of each operation that writes to the tables.
Writer(op) ==
    IF op \in {"save", "delete", "force_delete"} THEN "flush"
    ELSE IF op = "insert_batch" THEN "scalars"
    ELSE IF op \in {"update_batch", "delete_batch"} THEN "execute"
    ELSE "none"

\* The session calls an operation awaits: all but add, which only puts the
\* instance in the session.
Awaited(call) == call # "add"

\* An operation hands control back to the event loop at every session call
\* it awaits.  The position of the first awaited call after `from`; 0 when
\* there is none.
NextAwait(calls, from) ==
    LET ks == { k \in (from + 1)..Len(calls) : Awaited(calls[k]) }
    IN IF ks = {} THEN 0 ELSE CHOOSE k \in ks : \A j \in ks : k <= j

\* The tables when the first k session calls of the operation are made.
DataAt(op, before, planned, k) ==
    IF \E i \in 1..k : planned.calls[i] = Writer(op)
    THEN planned.data ELSE before

\* The call that waits at its k-th session call: the calls made so far, no
\* outcome yet.
Awaiting(op, model, where, kw, arg, planned, k) ==
    [op |-> "awaiting", model |-> model, where |-> where, kw |-> kw,
     arg |-> [op |-> op, arg |-> arg, planned |-> planned, at |-> k],
     calls |-> SubSeq(planned.calls, 1, k), result |-> [node |-> "none"]]

Suspended == last.op = "awaiting"

\* What the session answers to a call: it carries the call out, or raises.
SessionErrors == {"OperationalError", "IntegrityError"}

\* Faulty variant of Proceed: the failed session call is made again.
Proceed_retry(op, model, where, kw, arg, planned, from, answer) ==
    LET k == NextAwait(planned.calls, from)
    IN IF answer # "ok"
       THEN Call(op, model, where, kw,
                 [fault_at |-> k, error |-> answer,
                  planned |-> planned.calls],
                 [calls |-> SubSeq(planned.calls, 1, k)
                            \o <<planned.calls[k]>>,
                  result |-> Raise(answer)])
       ELSE IF k = 0 \/ k = Len(planned.calls)
       THEN Call(op, model, where, kw, arg, planned)
       ELSE Awaiting(op, model, where, kw, arg, planned, k)

\* The operation, planned to go as `planned` and having made its first
\* `from` session calls, goes on to its next awaited call, which the
\* session answers with `answer`.  The operations are straight-line code
\* with no try around a session call: when the call raises, the error
\* leaves the operation there, with the calls made so far.  When the call
\* is carried out the operation waits at it, or runs to its end when no
\* session call is left behind it.
Proceed(op, model, where, kw, arg, planned, from, answer) ==
    LET k == NextAwait(planned.calls, from)
    IN IF answer # "ok"
       THEN Call(op, model, where, kw,
                 [fault_at |-> k, error |-> answer,
                  planned |-> planned.calls],
                 [calls |-> SubSeq(planned.calls, 1, k),
                  result |-> Raise(answer)])
       ELSE IF k = 0 \/ k = Len(planned.calls)
       THEN Call(op, model, where, kw, arg, planned)
       ELSE Awaiting(op, model, where, kw, arg, planned, k)

\* The tables after that step: a call that raises has written nothing.
ProceedData(op, before, planned, from, answer) ==
    LET k == NextAwait(planned.calls, from)
    IN IF answer # "ok" THEN before
       ELSE IF k = 0 \/ k = Len(planned.calls) THEN planned.data
       ELSE DataAt(op, before, planned, k)

\* An operation from its start to its first await with session calls left,
\* or to its end: the call record, and the tables.
Begin(op, model, where, kw, arg, planned) ==
    Proceed(op, model, where, kw, arg, planned, 0, "ok")

BeginData(op, before, planned) == ProceedData(op, before, planned, 0, "ok")

Init ==
    /\ db = [TestModel |-> {}, RelatedModel |-> {}, M2MModel |-> {}]
    /\ next_id = [TestModel |-> 1, RelatedModel |-> 1, M2MModel |-> 1]
    /\ last = NoCall

Return ==
    /\ ~Idle
    /\ ~Suspended
    /\ last' = NoCall
    /\ UNCHANGED <<db, next_id>>

Save ==
    /\ Idle
    /\ \E model \in Models, refresh \in BOOLEAN :
        /\ Saved < MaxSaved
        /\ \E instance \in NewInstances(model),
              attribute_names \in AttributeNames :
            LET o == save(db, model, instance, refresh, attribute_names)
            IN /\ db' = BeginData("save", db, o)
               /\ next_id' = [next_id EXCEPT ![model] = @ + 1]
               /\ last' = Begin("save", model, <<>>, <<>>,
                                [refresh |-> refresh, instance |-> instance,
                                 attribute_names |-> attribute_names], o)

\* The operation that waits goes on, to its next await or to its end.
Resume ==
    /\ Suspended
    /\ LET a == last.arg
       IN /\ last' = Proceed(a.op, last.model, last.where, last.kw, a.arg,
                             a.planned, a.at, "ok")
          /\ db' = ProceedData(a.op, db, a.planned, a.at, "ok")
    /\ UNCHANGED next_id

\* flush with nothing pending, or with one instance the caller added.
Flush ==
    /\ Idle
    /\ \E model \in Models :
        \E pending \in {{}} \cup { {i} : i \in NewInstances(model) } :
            LET o == flush(db, model, pending)
            IN /\ pending # {} => Saved < MaxSaved
               /\ db' = o.data
               /\ next_id' = [next_id EXCEPT
                                ![model] = @ + Cardinality(pending)]
               /\ last' = Call("flush", model, <<>>, <<>>,
                               [pending |-> pending], o)

DeleteBatch ==
    /\ Idle
    /\ \E model \in Models :
        \E q \in QueryInputs(model) :
            LET o == delete_batch(db, model, q.where, q.kw)
            IN /\ db' = o.data
               /\ last' = Call("delete_batch", model, q.where, q.kw, NoArg, o)
               /\ UNCHANGED next_id

InsertBatch ==
    /\ Idle
    /\ \E model \in {"TestModel", "RelatedModel"} :
        \E objects \in InsertInputs(model), exclude_fields \in ExcludeInputs :
            LET o == insert_batch(db, model, objects, exclude_fields,
                                  next_id[model])
            IN /\ Saved + Len(objects) <= MaxSaved
               /\ db' = BeginData("insert_batch", db, o)
               /\ \E taken \in IF IsRaise(o.result)
                               THEN Consumed(model, o.dicts)
                               ELSE {Cardinality(o.result.ids)} :
                    next_id' = [next_id EXCEPT ![model] = @ + taken]
               /\ last' = Begin("insert_batch", model, <<>>, <<>>,
                                [objects |-> objects,
                                 exclude_fields |-> exclude_fields,
                                 dicts |-> o.dicts], o)

UpdateBatch ==
    /\ Idle
    /\ \E model \in {"TestModel", "RelatedModel"} :
        \E objects \in UpdateInputs(model), exclude_fields \in ExcludeInputs :
            LET o == update_batch(db, model, objects, exclude_fields)
            IN /\ db' = BeginData("update_batch", db, o)
               /\ last' = Begin("update_batch", model, <<>>, <<>>,
                                [objects |-> objects,
                                 exclude_fields |-> exclude_fields,
                                 dicts |-> o.dicts], o)
               /\ UNCHANGED next_id

TransformFilter ==
    /\ Idle
    /\ \E model \in Models :
        \E f \in FilterInputs(model) :
            /\ last' = Call("transform_filter", model, <<f>>, <<>>, NoArg,
                            [calls |-> <<>>,
                             result |-> transform_filter(f, model)])
            /\ UNCHANGED <<db, next_id>>

GetFilterStatement ==
    /\ Idle
    /\ \E model \in Models :
        \E q \in QueryInputs(model), st \in StatementInputs(model) :
            /\ last' = Call("get_filter_statement", model, q.where, q.kw,
                            [statement |-> st],
                            [calls |-> <<>>,
                             result |-> get_filter_statement(model, st,
                                                             q.where, q.kw)])
            /\ UNCHANGED <<db, next_id>>

\* Faulty variant of generative: the method alters the statement it is
\* called on and returns it.
generative_in_place(objects, self, built) ==
    IF IsRaise(built) THEN [objects |-> objects, ref |-> 0, result |-> built]
    ELSE [objects |-> [objects EXCEPT ![self] = built.statement],
          ref |-> self, result |-> built]

\* The statements a caller holds are objects; `objects` is the store and a
\* statement is known by its place in it.  Select.where, filter_by and
\* order_by are generative: the method works on a copy of the statement it
\* is called on and returns the copy, a new object; a builder that raises
\* returns no statement.  `built` is what the builder makes of the
\* statement at `self`.
generative(objects, self, built) ==
    IF IsRaise(built) THEN [objects |-> objects, ref |-> 0, result |-> built]
    ELSE [objects |-> Append(objects, built.statement),
          ref |-> Len(objects) + 1, result |-> built]

\* get_filter_statement and get_order_statement called on the statement at
\* `self`.
FilterCall(model, objects, self, where, filters_by) ==
    generative(objects, self,
               get_filter_statement(model, objects[self], where, filters_by))

OrderCall(model, objects, self, clauses) ==
    generative(objects, self,
               get_order_statement(model, objects[self], clauses))

\* What a call returned, as the caller finds it in the store `objects`.
Held(objects, call) ==
    IF IsRaise(call.result) THEN call.result ELSE Built(objects[call.ref])

\* The statements looked at when all calls are done: each result, the
\* base, and the places of the results in the store.
Looked(filtered, filter_first, ordered, order_first, again) ==
    [node |-> "both",
     filter_first |-> Held(again.objects, filter_first),
     order_first |-> Held(again.objects, order_first),
     filtered |-> Held(again.objects, filtered),
     ordered |-> Held(again.objects, ordered),
     again |-> Held(again.objects, again),
     base |-> again.objects[1],
     refs |-> <<filtered.ref, filter_first.ref, ordered.ref,
                order_first.ref, again.ref>>]

FilterAgain(model, where, filters_by, filtered, filter_first, ordered, order_first) ==
    Looked(filtered, filter_first, ordered, order_first,
           FilterCall(model, order_first.objects, 1, where, filters_by))

OrderFirst(model, where, filters_by, filtered, filter_first, ordered) ==
    FilterAgain(model, where, filters_by, filtered, filter_first, ordered,
                FilterCall(model, ordered.objects, ordered.ref, where,
                           filters_by))

FilterFirst(model, where, filters_by, clauses, filtered, filter_first) ==
    OrderFirst(model, where, filters_by, filtered, filter_first,
               OrderCall(model, filter_first.objects, 1, clauses))

Filtered(model, where, filters_by, clauses, filtered) ==
    FilterFirst(model, where, filters_by, clauses, filtered,
                IF IsRaise(filtered.result) THEN filtered
                ELSE OrderCall(model, filtered.objects, filtered.ref,
                               clauses))

\* A caller that holds the statement `statement` and builds on it, one call
\* after the other: get_filter_statement and get_order_statement on its
\* result (Filtered); get_order_statement on the base and
\* get_filter_statement on its result (FilterFirst, OrderFirst);
\* get_filter_statement on the base once more (FilterAgain).  The store
\* holds the base at place 1.
filter_and_order(model, statement, where, filters_by, clauses) ==
    Filtered(model, where, filters_by, clauses,
             FilterCall(model, <<statement>>, 1, where, filters_by))

FilterAndOrder ==
    /\ Idle
    /\ \E q \in QueryInputs("TestModel"),
          st \in StatementInputs("TestModel"), clauses \in OrderingInputs :
        /\ last' = Call("filter_and_order", "TestModel", q.where, q.kw,
                        [statement |-> st, clauses |-> clauses],
                        [calls |-> <<>>,
                         result |-> filter_and_order("TestModel", st, q.where,
                                                     q.kw, clauses)])
        /\ UNCHANGED <<db, next_id>>

GetPaginationStatement ==
    /\ Idle
    /\ \E model \in Models :
        \E st \in StatementInputs(model), offset \in {NULL, 0, 1},
           limit \in {NULL, 0, 1, 2} :
            /\ last' = Call("get_pagination_statement", model, <<>>, <<>>,
                            [statement |-> st, offset |-> offset,
                             limit |-> limit],
                            [calls |-> <<>>,
                             result |-> get_pagination_statement(model, st,
                                            offset, limit)])
            /\ UNCHANGED <<db, next_id>>

GetFetchStatement ==
    /\ Idle
    /\ \E model \in Models :
        \E a \in FetchInputs(model) :
            /\ last' = Call("get_fetch_statement", model, a.where,
                            a.filters_by, a,
                            [calls |-> <<>>,
                             result |-> get_fetch_statement(model, a)])
            /\ UNCHANGED <<db, next_id>>

Fetch ==
    /\ Idle
    /\ \E model \in Models, unique \in BOOLEAN :
        \E a \in FetchInputs(model) :
            \E o \in fetch(db, model, a, unique) :
                /\ last' = Call("fetch", model, a.where, a.filters_by, a, o)
                /\ UNCHANGED <<db, next_id>>

FetchAll ==
    /\ Idle
    /\ \E model \in Models :
        \E a \in FetchInputs(model) :
            \E o \in fetch_all(db, model, a, TRUE) :
                /\ last' = Call("fetch_all", model, a.where, a.filters_by,
                                a, o)
                /\ UNCHANGED <<db, next_id>>

\* fetch_all with a search filter as its only where filter, ordered by id.
Search ==
    /\ Idle
    /\ \E search_fields \in SearchFields, value \in SearchValues :
        LET search == transform_search_filter("TestModel", search_fields,
                                              value)
            where == <<search>>
            a == FetchArgs(NoStatement, NULL, NULL, <<>>, <<>>, <<>>,
                           <<PlainClause(<<"id">>)>>, where, <<>>)
        IN \E o \in IF IsRaise(search) THEN { Failed(search) }
                    ELSE fetch_all(db, "TestModel", a, TRUE) :
            /\ last' = Call("search", "TestModel", where, <<>>,
                            [search_fields |-> search_fields,
                             value |-> value], o)
            /\ UNCHANGED <<db, next_id>>

FetchFirst ==
    /\ Idle
    /\ \E model \in Models :
        \E a \in FetchInputs(model) :
            \E o \in fetch_first(db, model, a, TRUE) :
                /\ last' = Call("fetch_first", model, a.where, a.filters_by,
                                a, o)
                /\ UNCHANGED <<db, next_id>>

Values ==
    /\ Idle
    /\ \E model \in Models :
        \E q \in QueryInputs(model), st \in StatementInputs(model) :
            LET a == FetchArgs(st, NULL, NULL, <<>>, <<>>, <<>>, <<>>,
                               q.where, q.kw)
            IN \E o \in values(db, model, "id", a) :
                /\ last' = Call("values", model, q.where, q.kw, a, o)
                /\ UNCHANGED <<db, next_id>>

Count ==
    /\ Idle
    /\ \E model \in Models :
        \E q \in QueryInputs(model) :
            /\ last' = Call("count", model, q.where, q.kw, NoArg,
                            count(db, model, q.where, q.kw))
            /\ UNCHANGED <<db, next_id>>

Exists ==
    /\ Idle
    /\ \E model \in Models :
        \E q \in QueryInputs(model) :
            /\ last' = Call("exists", model, q.where, q.kw, NoArg,
                            exists(db, model, q.where, q.kw))
            /\ UNCHANGED <<db, next_id>>

Next ==
    \/ Return
    \/ Resume
    \/ Save
    \/ Flush
    \/ DeleteBatch
    \/ InsertBatch
    \/ UpdateBatch
    \/ TransformFilter
    \/ GetFilterStatement
    \/ FilterAndOrder
    \/ GetPaginationStatement
    \/ GetFetchStatement
    \/ Fetch
    \/ FetchAll
    \/ Search
    \/ FetchFirst
    \/ Values
    \/ Count
    \/ Exists

Spec == Init /\ [][Next]_vars

\* ------------------------------------------------------------------------
\* Definition of an OrderingEnum subclass, and sql_clause of its members
\* ------------------------------------------------------------------------

\* Class bodies tried: up to MaxMembers members with distinct names.
MemberNames == { <<"text">>, <<"number">>, <<"text", "_desc">> }

MemberValues == { <<"text">>, <<"number">>, <<"-", "text">> }

Declarations ==
    { d \in UNION { [1..n -> [name : MemberNames, value : MemberValues]] :
                      n \in 1..MaxMembers } :
        \A i, j \in 1..Len(d) : i # j => d[i].name # d[j].name }

DefineOrderingEnum ==
    /\ Idle
    /\ \E declared \in Declarations :
        last' = Call("OrderingEnumMeta_new", "None", <<>>, <<>>,
                     [declared |-> declared],
                     [calls |-> <<>>,
                      result |-> OrderingEnumMeta_new(declared)])
    /\ UNCHANGED <<db, next_id>>

\* sql_clause of a member of the class that has just been defined.
SqlClause ==
    /\ last.op = "OrderingEnumMeta_new"
    /\ ~IsRaise(last.result)
    /\ \E i \in 1..Len(last.result.members) :
        last' = Call("sql_clause", "None", <<>>, <<>>,
                     [declared |-> last.arg.declared,
                      members |-> last.result.members, member |-> i],
                     [calls |-> <<>>,
                      result |-> [node |-> "clause",
                                  clause |->
                                    sql_clause(last.result.members[i])]])
    /\ UNCHANGED <<db, next_id>>

OrderingNext ==
    \/ Return
    \/ DefineOrderingEnum
    \/ SqlClause

OrderingSpec == Init /\ [][OrderingNext]_vars

\* ------------------------------------------------------------------------
\* Properties
\* ------------------------------------------------------------------------

AllIds(model) == { r.id : r \in db[model] }

\* The call that has just ended transformed exactly one Filter and nothing
\* else, through one of the operations that hand `where` to transform_filter.
OneFilterCall ==
    /\ last.op \in {"transform_filter", "get_filter_statement", "fetch_all"}
    /\ Len(last.where) = 1
    /\ IsFilter(last.where[1])
    /\ last.kw = <<>>

\* C1: a field whose first segment is a column (a non-relationship
\* attribute) and that has more than one segment after it is refused with
\* ValueError, and no predicate or statement comes back.
C1_LongArgsRaise ==
    OneFilterCall =>
        LET parts == split(last.where[1].field)
        IN (Head(parts) \in Columns[last.model] /\ Len(parts) > 2)
            => last.result = Raise("ValueError")

C1_Witness ==
    /\ last.op = "fetch_all"
    /\ OneFilterCall
    /\ last.where[1].field = <<"text", SEP, "exact", SEP, "in">>
    /\ last.result = Raise("ValueError")
    /\ db.TestModel # {}

\* The operator tokens the specification lists as recognized.
RecognizedOperators ==
    {"is", "in", "exact", "gt", "gte", "lt", "lte", "overlaps"}

\* The call transformed '<column>__<token>'.
SimpleCall ==
    /\ last.op = "transform_filter"
    /\ Len(last.where[1].field) = 3
    /\ last.where[1].field[1] \in Columns[last.model]
    /\ last.where[1].field[2] = SEP

\* The comparison under the optional negation of exclude.
Positive(p) == IF p.node = "not" THEN p.arg ELSE p

\* C2 as claimed: every token outside the recognized set raises the
\* unknown-operator error (the KeyError of the operator table), and every
\* token inside the set yields a predicate.
C2_Original ==
    SimpleCall =>
        IF last.where[1].field[3] \in RecognizedOperators
        THEN ~IsRaise(last.result)
        ELSE last.result = Raise("KeyError")

\* C2 as amended: every token outside the recognized set raises KeyError at
\* transform time; every recognized token except overlaps yields the
\* comparison the table maps it to; overlaps passes the table and raises
\* AttributeError on a column whose type has no overlaps comparison.
C2_Amended ==
    SimpleCall =>
        LET token == last.where[1].field[3]
        IN IF token \notin RecognizedOperators
           THEN last.result = Raise("KeyError")
           ELSE IF token = "overlaps"
           THEN last.result = Raise("AttributeError")
           ELSE /\ ~IsRaise(last.result)
                /\ Positive(last.result).node = "cmp"
                /\ Positive(last.result).attr = last.where[1].field[1]
                /\ Positive(last.result).method =
                     (CASE token = "is" -> "is_"
                        [] token = "in" -> "in_"
                        [] token = "exact" -> "__eq__"
                        [] token = "gt" -> "__gt__"
                        [] token = "gte" -> "__ge__"
                        [] token = "lt" -> "__lt__"
                        [] token = "lte" -> "__le__")

C2_Witness ==
    /\ SimpleCall
    /\ last.where[1].field[3] = "contains"
    /\ last.result = Raise("KeyError")

\* The field is a chain of relationship names that ends in 'attr__op' with
\* op a comparison the column offers.
RECURSIVE IsChain(_, _)
IsChain(model, parts) ==
    IF Len(parts) < 2 THEN FALSE
    ELSE IF IsRelationship(model, parts[1])
    THEN IsChain(Relationship(model, parts[1]).target, Tail(parts))
    ELSE /\ Len(parts) = 2
         /\ parts[1] \in Columns[model]
         /\ parts[2] \in RecognizedOperators \ {"overlaps"}

Hops(parts) == Len(parts) - 2

\* The wrapper each hop must get: any for a to-many hop, has for a to-one.
RECURSIVE ExpectedWrappers(_, _)
ExpectedWrappers(model, parts) ==
    IF Len(parts) <= 2 THEN <<>>
    ELSE LET rel == Relationship(model, parts[1])
         IN <<IF rel.uselist THEN "any" ELSE "has">>
                \o ExpectedWrappers(rel.target, Tail(parts))

RECURSIVE Wrappers(_)
Wrappers(p) ==
    IF p.node \in {"any", "has"} THEN <<p.node>> \o Wrappers(p.criterion)
    ELSE IF p.node = "not" THEN <<"not">> \o Wrappers(p.arg)
    ELSE <<>>

\* The rows a manually joined query reaches from `rows` along the hops.
RECURSIVE Reach(_, _, _)
Reach(model, parts, rows) ==
    IF Len(parts) <= 2 THEN rows
    ELSE LET rel == Relationship(model, parts[1])
         IN Reach(rel.target, Tail(parts),
                  UNION { Related(db, rel, r) : r \in rows })

RECURSIVE EndModel(_, _)
EndModel(model, parts) ==
    IF Len(parts) <= 2 THEN model
    ELSE EndModel(Relationship(model, parts[1]).target, Tail(parts))

\* SELECT the base rows joined through the chain WHERE attr op value.
JoinRows(model, parts, value) ==
    LET n == Len(parts)
    IN { r.id : r \in
          { b \in db[model] :
              \E e \in Reach(model, parts, {b}) :
                  Compare(filter_args_mapping[parts[n]], e[parts[n - 1]],
                          value) = "T" } }

\* C3: a relationship chain followed by 'attr__op' is resolved hop by hop,
\* each hop wrapped in any (to-many) or has (to-one), and it selects exactly
\* the rows a manually joined query selects.
C3_ChainEqualsJoin ==
    (/\ last.op = "transform_filter"
     /\ ~last.where[1].exclude
     /\ IsChain(last.model, split(last.where[1].field))
     /\ Hops(split(last.where[1].field)) >= 1)
    => LET parts == split(last.where[1].field)
       IN /\ ~IsRaise(last.result)
          /\ Wrappers(last.result) = ExpectedWrappers(last.model, parts)
          /\ SelectRows(db, last.model, <<last.result>>)
                = JoinRows(last.model, parts, last.where[1].value)

C3_Witness ==
    /\ last.op = "transform_filter"
    /\ last.model = "TestModel"
    /\ ~last.where[1].exclude
    /\ last.where[1].field = <<"related_model", SEP, "test_model", SEP,
                               "text", SEP, "exact">>
    /\ Wrappers(last.result) = <<"has", "has">>
    /\ SelectRows(db, last.model, <<last.result>>) # {}
    /\ SelectRows(db, last.model, <<last.result>>) # AllIds(last.model)

\* The call transformed a well-formed Filter with exclude set.
ExcludeCall ==
    /\ last.op = "transform_filter"
    /\ last.where[1].exclude
    /\ IsChain(last.model, split(last.where[1].field))

\* The predicate the same Filter yields without exclude.
Included == transform_filter([last.where[1] EXCEPT !.exclude = FALSE],
                             last.model)

\* C4 as claimed: exclude yields NOT of the predicate without exclude, the
\* negation sits once, outside all wrapping, and the excluded rows are the
\* complement of the included rows whatever the chain length.
C4_Original ==
    ExcludeCall =>
        /\ last.result = [node |-> "not", arg |-> Included]
        /\ SelectRows(db, last.model, <<last.result>>)
              = AllIds(last.model) \ SelectRows(db, last.model, <<Included>>)

\* C4 as amended: the structure is as claimed; the excluded rows are the
\* rows on which the predicate is false, which is the complement of the
\* included rows for a chain of at least one hop, and for a plain column
\* filter the complement less the rows on which the comparison is NULL.
C4_Amended ==
    ExcludeCall =>
        /\ last.result = [node |-> "not", arg |-> Included]
        /\ \A i \in 2..Len(Wrappers(last.result)) :
                Wrappers(last.result)[i] # "not"
        /\ SelectRows(db, last.model, <<last.result>>)
              = { r.id : r \in { x \in db[last.model] :
                    Eval(db, Included, last.model, x) = "F" } }
        /\ Hops(split(last.where[1].field)) >= 1 =>
              SelectRows(db, last.model, <<last.result>>)
                = AllIds(last.model)
                    \ SelectRows(db, last.model, <<Included>>)

C4_Witness ==
    /\ ExcludeCall
    /\ Hops(split(last.where[1].field)) = 2
    /\ SelectRows(db, last.model, <<last.result>>) # {}
    /\ SelectRows(db, last.model, <<Included>>) # {}

\* What a get_filter_statement result selects: the error, or the rows.
Outcome(res, model) ==
    IF IsRaise(res) THEN res
    ELSE [node |-> "rows",
          rows |-> SelectRows(db, model, res.statement.whereclause)]

\* The explicit Filter for each keyword, field and value taken as they are.
ExplicitLiteral(kw) ==
    [i \in 1..Len(kw) |-> Filter(kw[i].field, kw[i].value, FALSE)]

\* The explicit Filter for each keyword, a plain keyword read as <name>__exact.
ExplicitExact(kw) ==
    [i \in 1..Len(kw) |->
        Filter(IF HasSep(kw[i].field) THEN kw[i].field
               ELSE kw[i].field \o <<SEP, "exact">>,
               kw[i].value, FALSE)]

\* The call built a filter statement from keyword filters.
KeywordCall ==
    /\ last.op = "get_filter_statement"
    /\ last.kw # <<>>

\* C5 as claimed: keyword filters select what Filter(field=keyword,
\* value=value) in where selects, for every keyword.
C5_Original ==
    KeywordCall =>
        Outcome(last.result, last.model)
            = Outcome(get_filter_statement(last.model, last.arg.statement,
                        last.where \o ExplicitLiteral(last.kw), <<>>),
                      last.model)

\* C5 as amended: a keyword with '__' selects what Filter(field=keyword,
\* value=value) selects (and fails as it fails); a keyword without '__'
\* that names a column selects what Filter(field=keyword + '__exact',
\* value=value) selects.
C5_Amended ==
    (/\ KeywordCall
     /\ \A i \in 1..Len(last.kw) :
            \/ HasSep(last.kw[i].field)
            \/ last.kw[i].field[1] \in Columns[last.model])
    => Outcome(last.result, last.model)
            = Outcome(get_filter_statement(last.model, last.arg.statement,
                        last.where \o ExplicitExact(last.kw), <<>>),
                      last.model)

C5_Witness ==
    /\ KeywordCall
    /\ last.model = "TestModel"
    /\ Len(last.kw) = 2
    /\ ~IsRaise(last.result)
    /\ Outcome(last.result, last.model).rows # {}
    /\ Outcome(last.result, last.model).rows # AllIds(last.model)

\* C6 as claimed: count, exists and delete_batch treat where and keyword
\* filters as fetch_all does: they fail when it fails, count is the number
\* of rows it returns, exists is whether it returns any, and delete_batch
\* removes those rows.
C6_SameFiltersAsFetch ==
    [][ last'.op \in {"count", "exists", "delete_batch"} =>
          \A o \in fetch_all(db, last'.model,
                             FetchArgs(NoStatement, NULL, NULL, <<>>, <<>>,
                                       <<>>, <<>>, last'.where, last'.kw),
                             TRUE) :
              IF IsRaise(o.result) THEN IsRaise(last'.result)
              ELSE /\ ~IsRaise(last'.result)
                   /\ last'.op = "count" =>
                        last'.result.value = Len(o.result.rows)
                   /\ last'.op = "exists" =>
                        last'.result.value = (o.result.rows # <<>>)
                   /\ last'.op = "delete_batch" =>
                        last'.result.rows = Range(o.result.rows) ]_vars

\* C7 as claimed: the keyword '<column>__not_in' selects the complement of
\* the rows '<column>__in' selects.
C7_NotInKeyword ==
    (/\ last.op \in {"get_filter_statement", "fetch_all"}
     /\ last.where = <<>>
     /\ Len(last.kw) = 1
     /\ Len(last.kw[1].field) = 3
     /\ last.kw[1].field[1] \in Columns[last.model]
     /\ last.kw[1].field[3] = "not_in")
    => /\ ~IsRaise(last.result)
       /\ (IF last.op = "fetch_all" THEN Range(last.result.rows)
           ELSE Outcome(last.result, last.model).rows)
            = AllIds(last.model)
                \ SelectRows(db, last.model,
                    <<[node |-> "cmp", attr |-> last.kw[1].field[1],
                       method |-> "in_", value |-> last.kw[1].value]>>)

\* C8 as claimed: a leading name that is a key of m2m_filters is turned
\* into an existence test on the association rows (match_field = the
\* owner's primary key, filter_field op value), and selects the owners that
\* have such a row.
C8_M2MFilter ==
    (/\ last.op = "transform_filter"
     /\ ~last.where[1].exclude
     /\ Len(split(last.where[1].field)) = 2
     /\ \E c \in m2m_filters[last.model] :
            c.key = Head(split(last.where[1].field)))
    => LET parts == split(last.where[1].field)
           c == CHOOSE x \in m2m_filters[last.model] : x.key = parts[1]
           association == Relationship(last.model, c.relation_field).target
       IN /\ ~IsRaise(last.result)
          /\ SelectRows(db, last.model, <<last.result>>)
                = { owner.id : owner \in
                     { r \in db[last.model] :
                        \E m \in db[association] :
                            /\ m[c.match_field] = r.id
                            /\ Compare(filter_args_mapping[parts[2]],
                                       m[c.filter_field],
                                       last.where[1].value) = "T" } }

\* The options a load or annotation argument adds, in order.
OptionsOf(a) ==
    [i \in 1..Len(a.joined_load) |-> "joinedload"]
        \o [i \in 1..Len(a.select_in_load) |-> "selectinload"]
        \o [i \in 1..Len(a.annotations) |->
                IF a.annotations[i].tuple THEN "with_expression"
                ELSE "undefer"]

\* C9: get_fetch_statement applies joined load, select-in load, annotations,
\* ordering, filtering and pagination to the incoming statement in this
\* order, each once, pagination last.
C9_FetchOrder ==
    (last.op = "get_fetch_statement" /\ ~IsRaise(last.result)) =>
        LET base == OrSelect(last.arg.statement, last.model)
            built == last.result.statement
        IN /\ built.applied = base.applied
                \o <<"joined_load", "select_in_load", "annotate", "order",
                     "filter", "paginate">>
           /\ [i \in 1..Len(built.options) |-> built.options[i].option]
                = [i \in 1..Len(base.options) |-> base.options[i].option]
                    \o OptionsOf(last.arg)
           /\ Len(built.order_by)
                = Len(base.order_by) + Len(last.arg.ordering_clauses)
           /\ Len(built.whereclause)
                = Len(base.whereclause) + Len(last.arg.where)
                    + Len(last.arg.filters_by)

C9_Witness ==
    /\ last.op = "get_fetch_statement"
    /\ ~IsRaise(last.result)
    /\ last.arg.joined_load # <<>>
    /\ last.arg.select_in_load # <<>>
    /\ last.arg.annotations # <<>>
    /\ last.arg.where # <<>>
    /\ last.result.statement.limit = 1
    /\ Len(last.result.statement.options) = 4

\* The errors that only the building of a statement raises, in
\* Filter.transform_filter.  (CompileError and IntegrityError come from the
\* session, while it runs the statement; InvalidRequestError comes from
\* filter_by while the statement is built and also from a result that
\* requires unique(), so it does not tell the two apart.)
StatementBuildingErrors ==
    {"ValueError", "KeyError", "AttributeError", "IndexError"}

RepositoryOps ==
    {"fetch", "fetch_all", "fetch_first", "values", "count", "exists",
     "delete_batch"}

\* The call was given a Filter that does not transform, and it builds its
\* statement from its filters (values does not when handed a statement).
BadFilterCall ==
    /\ last.op \in RepositoryOps
    /\ \E i \in 1..Len(last.where) :
            /\ IsFilter(last.where[i])
            /\ IsRaise(transform_filter(last.where[i], last.model))
    /\ ~(last.op = "values" /\ last.arg.statement.model # "None")

\* C10: a filter that fails to transform makes the operation raise, and a
\* call that ends with a statement-building error has called no method of
\* the session.
C10_RaiseBeforeSession ==
    last.op \in RepositoryOps =>
        /\ (IsRaise(last.result)
            /\ last.result.error \in StatementBuildingErrors)
                => last.calls = <<>>
        /\ BadFilterCall => (IsRaise(last.result) /\ last.calls = <<>>)

C10_Witness ==
    /\ last.op = "count"
    /\ BadFilterCall
    /\ last.result = Raise("ValueError")
    /\ last.calls = <<>>
    /\ db.TestModel # {}

\* The members of the class with the given name.
Named(members, name) ==
    { i \in 1..Len(members) : members[i].name = name }

\* The class came into being as the metaclass leaves it: each declared
\* member has exactly one '<name>_desc' whose value is '-' and the member's
\* value, and nothing is generated for a generated member.
DescendingCounterparts ==
    (last.op = "OrderingEnumMeta_new" /\ ~IsRaise(last.result)) =>
        LET declared == last.arg.declared
            members == last.result.members
        IN /\ Len(members) = 2 * Len(declared)
           /\ \A i \in 1..Len(declared) :
                /\ members[i] = declared[i]
                /\ Cardinality(Named(members,
                                     declared[i].name \o <<"_desc">>)) = 1
                /\ \A j \in Named(members, declared[i].name \o <<"_desc">>) :
                        members[j].value = <<"-">> \o declared[i].value
           /\ \A i \in 1..Len(members) :
                Named(members, members[i].name \o <<"_desc">>) # {}
                    => i <= Len(declared)

\* C17 as claimed: every declared member M has exactly one M_desc with
\* value '-' + M's value; M's sql_clause is ascending on M's value and
\* M_desc's sql_clause is descending on M's value; no _desc of a _desc.
C17_Original ==
    /\ DescendingCounterparts
    /\ last.op = "sql_clause" =>
        LET declared == last.arg.declared
            i == last.arg.member
            n == Len(declared)
        IN /\ i <= n => last.result.clause
                            = [label |-> declared[i].value, desc |-> FALSE]
           /\ i > n => last.result.clause
                            = [label |-> declared[i - n].value, desc |-> TRUE]

\* C17 as amended: as claimed, but M's sql_clause is ascending on M's value
\* only when that value does not start with '-'; a declared value that
\* starts with '-' gives a descending clause on the rest of the value.
C17_Amended ==
    /\ DescendingCounterparts
    /\ last.op = "sql_clause" =>
        LET declared == last.arg.declared
            i == last.arg.member
            n == Len(declared)
        IN /\ (i <= n /\ ~startswith(declared[i].value, "-"))
                => last.result.clause
                        = [label |-> declared[i].value, desc |-> FALSE]
           /\ (i <= n /\ startswith(declared[i].value, "-"))
                => last.result.clause
                        = [label |-> Tail(declared[i].value), desc |-> TRUE]
           /\ i > n => last.result.clause
                            = [label |-> declared[i - n].value, desc |-> TRUE]

C17_Witness ==
    /\ last.op = "sql_clause"
    /\ Len(last.arg.declared) = 2
    /\ last.arg.member = 4
    /\ last.arg.members[4].name = <<"number", "_desc">>
    /\ last.result.clause = [label |-> <<"number">>, desc |-> TRUE]

\* The sequence of primary keys is in descending order of the column.
Descending(model, ids, column) ==
    \A i, j \in 1..Len(ids) :
        i < j => RowById(db, model, ids[i])[column]
                    >= RowById(db, model, ids[j])[column]

\* C18 as claimed: fetch_all(ordering_clauses=['-text']) returns all rows in
\* descending order of text, as the member text_desc does, and a plain
\* 'text' returns them in ascending order.
C18_PlainDescending ==
    (/\ last.op = "fetch_all"
     /\ last.where = <<>> /\ last.kw = <<>>
     /\ last.arg.ordering_clauses = <<PlainClause(<<"-", "text">>)>>)
    => /\ ~IsRaise(last.result)
       /\ Range(last.result.rows) = AllIds(last.model)
       /\ Descending(last.model, last.result.rows, "text")

\* C11: exists is true exactly when count, with the same filters on the same
\* table, is positive (and raises exactly when count raises); count is a
\* natural number, 0 when the table is empty or no row qualifies; exists is
\* a boolean.
C11_ExistsIffCount ==
    /\ last.op = "exists" =>
        LET counted == count(db, last.model, last.where, last.kw).result
        IN IF IsRaise(last.result) THEN counted = last.result
           ELSE /\ ~IsRaise(counted)
                /\ last.result.value \in BOOLEAN
                /\ last.result.value <=> counted.value > 0
    /\ (last.op = "count" /\ ~IsRaise(last.result)) =>
        /\ last.result.value \in Nat
        /\ db[last.model] = {} => last.result.value = 0
        /\ last.result.value = 0
            <=> ~exists(db, last.model, last.where, last.kw).result.value

C11_Witness ==
    /\ last.op = "exists"
    /\ Len(last.where) = 1
    /\ IsFilter(last.where[1])
    /\ ~IsRaise(last.result)
    /\ last.result.value = FALSE
    /\ db[last.model] # {}

\* ------------------------------------------------------------------------
\* Session calls that fail (constraint violations, lost connections)
\* ------------------------------------------------------------------------


\* The sequences after the rows of `data` were written.
NextIdAfter(data) ==
    [m \in Models |->
        IF \E r \in data[m] : r.id >= next_id[m]
        THEN 1 + (CHOOSE i \in { r.id : r \in data[m] } :
                    \A r \in data[m] : r.id <= i)
        ELSE next_id[m]]

\* The next awaited session call of the operation `op`, planned to go as
\* `planned` and having made `from` session calls, raises.  When the call
\* that fails is the one that writes, the statement may have taken keys
\* from the sequence before it failed.
Fails(op, model, planned, from) ==
    /\ ~IsRaise(planned.result)
    /\ NextAwait(planned.calls, from) # 0
    /\ \E error \in SessionErrors :
        LET k == NextAwait(planned.calls, from)
            least == NextIdAfter(db)
            most == IF planned.calls[k] = Writer(op)
                    THEN NextIdAfter(planned.data) ELSE least
        IN /\ db' = ProceedData(op, db, planned, from, error)
           /\ \E n \in least[model]..most[model] :
                next_id' = [least EXCEPT ![model] = n]
           /\ last' = Proceed(op, model, <<>>, <<>>, NoArg, planned, from,
                              error)

\* A fetch with keyword filters only.
KeywordArgs(kw) ==
    FetchArgs(NoStatement, NULL, NULL, <<>>, <<>>, <<>>, <<>>, <<>>, kw)

WithData(o) == [calls |-> o.calls, result |-> o.result, data |-> db]

FailingSave ==
    /\ Idle
    /\ Saved < MaxSaved
    /\ \E model \in Models, refresh \in BOOLEAN :
        \E instance \in NewInstances(model) :
            Fails("save", model, save(db, model, instance, refresh, NoNames), 0)

\* delete of a stored instance.
Delete ==
    /\ Idle
    /\ \E model \in Models :
        \E instance \in db[model] :
            LET o == delete(db, model, instance)
            IN /\ db' = BeginData("delete", db, o)
               /\ last' = Begin("delete", model, <<>>, <<>>,
                                [instance |-> instance], o)
               /\ UNCHANGED next_id

\* The next awaited session call of the operation that waits raises.
ResumeFails ==
    /\ Suspended
    /\ Fails(last.arg.op, last.model, last.arg.planned, last.arg.at)

FailingDelete ==
    /\ Idle
    /\ \E model \in Models :
        \E instance \in db[model] :
            Fails("delete", model, delete(db, model, instance), 0)

FailingInsertBatch ==
    /\ Idle
    /\ \E model \in {"TestModel", "RelatedModel"} :
        \E objects \in InsertInputs(model) :
            /\ Saved + Len(objects) <= MaxSaved
            /\ objects # <<>>
            /\ Fails("insert_batch", model,
                     insert_batch(db, model, objects, ExcludeDefault,
                                  next_id[model]), 0)

FailingUpdateBatch ==
    /\ Idle
    /\ \E model \in {"TestModel", "RelatedModel"} :
        \E objects \in UpdateInputs(model) :
            /\ objects # <<>>
            /\ Fails("update_batch", model,
                     update_batch(db, model, objects, ExcludeDefault), 0)

FailingDeleteBatch ==
    /\ Idle
    /\ \E model \in Models :
        \E kw \in KeywordInputs(model) :
            Fails("delete_batch", model, delete_batch(db, model, <<>>, kw), 0)

FailingFetch ==
    /\ Idle
    /\ \E model \in Models :
        \E kw \in KeywordInputs(model) :
            \E o \in fetch(db, model, KeywordArgs(kw), TRUE) :
                Fails("fetch", model, WithData(o), 0)

FailingValues ==
    /\ Idle
    /\ \E model \in Models :
        \E kw \in KeywordInputs(model) :
            \E o \in values(db, model, "id", KeywordArgs(kw)) :
                Fails("values", model, WithData(o), 0)

FailingCount ==
    /\ Idle
    /\ \E model \in Models :
        \E kw \in KeywordInputs(model) :
            Fails("count", model, WithData(count(db, model, <<>>, kw)), 0)

FailingExists ==
    /\ Idle
    /\ \E model \in Models :
        \E kw \in KeywordInputs(model) :
            Fails("exists", model, WithData(exists(db, model, <<>>, kw)), 0)

FaultNext ==
    \/ Return
    \/ Resume
    \/ ResumeFails
    \/ Save
    \/ Delete
    \/ InsertBatch
    \/ UpdateBatch
    \/ FailingSave
    \/ FailingDelete
    \/ FailingInsertBatch
    \/ FailingUpdateBatch
    \/ FailingDeleteBatch
    \/ FailingFetch
    \/ FailingValues
    \/ FailingCount
    \/ FailingExists

FaultSpec == Init /\ [][FaultNext]_vars

\* ------------------------------------------------------------------------
\* The soft-delete repository (tests/repositories.py,
\* SoftDeleteTestModelRepository), on a table of its own
\* ------------------------------------------------------------------------

MaxSoft == 3

Soft == "SoftDeleteTestModel"

\* Values of datetime.now() at the soft deletes.
Timestamps == {1, 2}

SoftInit ==
    /\ db = [SoftDeleteTestModel |-> {}]
    /\ next_id = [SoftDeleteTestModel |-> 1]
    /\ last = NoCall

\* Instances the caller holds: one per row ever saved.
SoftIds == 1..(next_id[Soft] - 1)

LifeCycle(id) ==
    IF \A r \in db[Soft] : r.id # id THEN "purged"
    ELSE IF RowById(db, Soft, id).deleted = NULL THEN "active"
    ELSE "soft-deleted"

\* The instance with the primary key: its row, or what is left of it in
\* the session once the row is gone.
SoftInstance(id) ==
    IF LifeCycle(id) = "purged"
    THEN [id |-> id, text |-> 97, number |-> 1, deleted |-> NULL]
    ELSE RowById(db, Soft, id)

ById(id) == <<[field |-> <<"id">>, value |-> <<id>>]>>

SoftArgs(kw) ==
    FetchArgs(NoStatement, NULL, NULL, <<>>, <<>>, <<>>, <<>>, <<>>, kw)

SoftKeywords == {<<>>} \cup { ById(id) : id \in 1..MaxSoft }

SoftSave ==
    /\ Idle
    /\ next_id[Soft] <= MaxSoft
    /\ \E x \in Texts :
        LET instance == [id |-> next_id[Soft], text |-> x, number |-> x - 96,
                         deleted |-> NULL]
            o == save(db, Soft, instance, FALSE, NoNames)
        IN /\ db' = o.data
           /\ next_id' = [next_id EXCEPT ![Soft] = @ + 1]
           /\ last' = Call("save", Soft, <<>>, <<>>,
                           [refresh |-> FALSE, instance |-> instance,
                            attribute_names |-> NoNames], o)

SoftDelete ==
    /\ Idle
    /\ \E id \in SoftIds, now \in Timestamps :
        \E o \in soft_delete(db, Soft, SoftInstance(id), now) :
            /\ db' = BeginData("delete", db, o)
            /\ last' = Begin("delete", Soft, <<>>, <<>>,
                             [instance |-> SoftInstance(id),
                              was |-> LifeCycle(id), now |-> now], o)
            /\ UNCHANGED next_id

\* save of an instance the caller holds, with its text changed: the row is
\* updated when it is stored; the session refuses the instance of a row
\* that is gone.
SoftSaveAgain ==
    /\ Idle
    /\ \E id \in SoftIds :
        \E x \in Texts \ {SoftInstance(id).text} :
            LET instance == [SoftInstance(id) EXCEPT !.text = x]
            IN \E o \in IF Stored(db, Soft, instance)
                        THEN { save(db, Soft, instance, FALSE, NoNames) }
                        ELSE add_deleted(db) :
                /\ db' = BeginData("save", db, o)
                /\ last' = Begin("save", Soft, <<>>, <<>>,
                                 [refresh |-> FALSE, instance |-> instance,
                                  attribute_names |-> NoNames], o)
                /\ UNCHANGED next_id

ForceDelete ==
    /\ Idle
    /\ \E id \in SoftIds :
        \E o \in force_delete(db, Soft, SoftInstance(id)) :
            /\ db' = BeginData("force_delete", db, o)
            /\ last' = Begin("force_delete", Soft, <<>>, <<>>,
                             [instance |-> SoftInstance(id),
                              was |-> LifeCycle(id), now |-> NULL], o)
            /\ UNCHANGED next_id

\* The delete_batch that the soft-delete repository inherits.
SoftDeleteBatch ==
    /\ Idle
    /\ \E kw \in SoftKeywords :
        LET o == delete_batch(db, Soft, <<>>, kw)
        IN /\ db' = o.data
           /\ last' = Call("delete_batch", Soft, <<>>, kw,
                           [before |-> db[Soft]], o)
           /\ UNCHANGED next_id

SoftFetchFirst ==
    /\ Idle
    /\ \E kw \in SoftKeywords :
        \E o \in fetch_first(db, Soft, SoftArgs(kw), TRUE) :
            /\ last' = Call("fetch_first", Soft, <<>>, kw, SoftArgs(kw), o)
            /\ UNCHANGED <<db, next_id>>

SoftFetchAll ==
    /\ Idle
    /\ \E kw \in SoftKeywords :
        \E o \in fetch_all(db, Soft, SoftArgs(kw), TRUE) :
            /\ last' = Call("fetch_all", Soft, <<>>, kw, SoftArgs(kw), o)
            /\ UNCHANGED <<db, next_id>>

SoftCount ==
    /\ Idle
    /\ \E kw \in SoftKeywords :
        /\ last' = Call("count", Soft, <<>>, kw, NoArg,
                        count(db, Soft, <<>>, kw))
        /\ UNCHANGED <<db, next_id>>

SoftExists ==
    /\ Idle
    /\ \E kw \in SoftKeywords :
        /\ last' = Call("exists", Soft, <<>>, kw, NoArg,
                        exists(db, Soft, <<>>, kw))
        /\ UNCHANGED <<db, next_id>>

SoftNext ==
    \/ Return
    \/ Resume
    \/ SoftSave
    \/ SoftSaveAgain
    \/ SoftDelete
    \/ ForceDelete
    \/ SoftDeleteBatch
    \/ SoftFetchFirst
    \/ SoftFetchAll
    \/ SoftCount
    \/ SoftExists

SoftSpec == SoftInit /\ [][SoftNext]_vars

\* The stored rows a keyword selection by primary key matches, deleted
\* marker set or not.
SoftMatches(kw) ==
    { r.id : r \in { s \in db[Soft] : kw = <<>> \/ kw = ById(s.id) } }

\* C12: the soft delete of an active row leaves the row stored, with the
\* marker set to the time of the call and the other columns as they were;
\* fetch, fetch_first, count and exists, by primary key or with no filter,
\* see every stored row, soft-deleted ones included.
C12_SoftDeleteKeepsRow ==
    /\ (last.op = "delete" /\ last.arg.was = "active") =>
            /\ last.calls = <<"add", "flush">>
            /\ last.result = [node |-> "none"]
            /\ [last.arg.instance EXCEPT !.deleted = last.arg.now] \in db[Soft]
            /\ last.arg.now # NULL
            /\ LifeCycle(last.arg.instance.id) = "soft-deleted"
    /\ (last.model = Soft /\ last.op = "fetch_all") =>
            /\ last.calls = <<"scalars">>
            /\ Range(last.result.rows) = SoftMatches(last.kw)
            /\ Len(last.result.rows) = Cardinality(SoftMatches(last.kw))
    /\ (last.model = Soft /\ last.op = "fetch_first") =>
            IF SoftMatches(last.kw) = {} THEN last.result.first = NULL
            ELSE last.result.first \in SoftMatches(last.kw)
    /\ (last.model = Soft /\ last.op = "count") =>
            last.result.value = Cardinality(SoftMatches(last.kw))
    /\ (last.model = Soft /\ last.op = "exists") =>
            last.result.value = (SoftMatches(last.kw) # {})

C12_Witness ==
    /\ last.op = "fetch_first"
    /\ last.model = Soft
    /\ last.kw # <<>>
    /\ last.result.first # NULL
    /\ LifeCycle(last.result.first) = "soft-deleted"

\* C13: force_delete of an active or soft-deleted row removes the row with
\* session.delete and a flush; fetch_first by the primary key of a purged row
\* returns nothing; and a purged row stays purged whatever is called next.
C13_PurgedIsTerminal ==
    /\ [](/\ (last.op = "force_delete" /\ last.arg.was # "purged") =>
                /\ last.calls = <<"delete", "flush">>
                /\ LifeCycle(last.arg.instance.id) = "purged"
          /\ (last.model = Soft /\ last.op = "fetch_first"
                /\ \E id \in SoftIds :
                       last.kw = ById(id) /\ LifeCycle(id) = "purged") =>
                last.result.first = NULL)
    /\ [][\A id \in SoftIds :
            LifeCycle(id) = "purged" => (LifeCycle(id) = "purged")']_vars

C13_Witness ==
    /\ last.op = "force_delete"
    /\ last.arg.was = "soft-deleted"
    /\ LifeCycle(last.arg.instance.id) = "purged"
    /\ Cardinality(db[Soft]) >= 1

\* ------------------------------------------------------------------------
\* ModelAutoSchema.get_schema (schema/auto_schema.py), on Meta classes for
\* TestModel
\* ------------------------------------------------------------------------

\* Entries of Meta.fields per schema.
MaxFields == 2

\* Meta.base_model and Meta.model_config: absent (None) or present; a
\* present config is a dict of options, which may be empty.
NoBase == [given |-> FALSE]

BaseModel == [given |-> TRUE]

NoConfig == [given |-> FALSE, options |-> {}]

ConfigDict(options) == [given |-> TRUE, options |-> options]

\* Truth value of the two: a class is true, a dict is true when not empty,
\* None is false.
Truthy(value) ==
    value.given /\ ("options" \in DOMAIN value => value.options # {})

\* Entries of Meta.fields: a name, a tuple or a list starting with a name.
NameSpec(name) == [kind |-> "str", name |-> name, len |-> 1]

\* The type of a (name, type) entry: a plain type, or a ModelAutoSchema
\* subclass, told by its Meta.
PlainType == [auto_schema |-> FALSE, meta |-> <<>>]

AutoSchemaType(meta) == [auto_schema |-> TRUE, meta |-> meta]

TupleSpec(name, len) ==
    [kind |-> "tuple", name |-> name, len |-> len, type |-> PlainType]

AutoTupleSpec(name, field_type) ==
    [kind |-> "tuple", name |-> name, len |-> 2, type |-> field_type]

ListSpec(name, len) == [kind |-> "list", name |-> name, len |-> len]

\* A list cannot be a dict key.
Hashable(field) == field.kind # "list"

Properties == {"custom_property"}

IsProperty(model, field) == model = "TestModel" /\ field \in Properties

\* Storage types of the columns that schemas are made of.
StorageType ==
    [TestModel |->
        [id |-> "Integer", text |-> "String", number |-> "Integer",
         related_model_id |-> "Integer", boolean |-> "Boolean"],
     RelatedModel |-> [id |-> "Integer", test_model_id |-> "Integer"],
     M2MModel |->
        [id |-> "Integer", test_model_id |-> "Integer",
         related_model_id |-> "Integer"]]

\* A dict with no key.
EmptyDict == <<>>

\* dict.update: the keys of both, the value of `other` where it has the key.
update(dict, other) ==
    [k \in DOMAIN dict \cup DOMAIN other |->
        IF k \in DOMAIN other THEN other[k] ELSE dict[k]]

\* dict.get(key, default) on a dict keyed by names.
get(dict, key, default) ==
    IF key \in DOMAIN dict THEN dict[key] ELSE default

\* extra_fields_config.get(field, {}) with the entry of Meta.fields itself
\* as the key: a tuple is no key of a dict keyed by names.
extra_field_config_of(extra_fields_config, field) ==
    IF field.kind = "str" THEN get(extra_fields_config, field.name, EmptyDict)
    ELSE EmptyDict

\* The constraints each generator derives from the column.
DerivedConstraints(type) ==
    IF type = "String" THEN [strip_whitespace |-> 1, max_length |-> 250]
    ELSE IF type = "Integer" THEN [ge |-> 0 - 2147483647 - 1, le |-> 2147483647]
    ELSE EmptyDict

\* The generators of _get_db_types_mapping: the string and integer ones
\* update the derived constraints with the extra ones, the boolean one
\* has no constraints and does not look at the extra ones.
generate_typed_field(type, field, extra_field_config) ==
    IF type \in {"String", "Integer"}
    THEN [node |-> "field", name |-> field,
          constraints |-> update(DerivedConstraints(type), extra_field_config)]
    ELSE [node |-> "field", name |-> field, constraints |-> EmptyDict]

\* ModelAutoSchema._generate_field
generate_field(model, field, extra_field_config) ==
    IF IsProperty(model, field)
    THEN [node |-> "field", name |-> field, constraints |-> EmptyDict]
    ELSE IF field \notin DOMAIN StorageType[model] /\ ~HasProperty(model, field)
    THEN Raise("AttributeError")
    ELSE IF IsRelationship(model, field) THEN Raise("UnableProcessTypeError")
    ELSE generate_typed_field(StorageType[model][field], field,
                              extra_field_config)

RECURSIVE get_schema(_)

\* ModelAutoSchema._generate_property_custom_field, for a property whose
\* return annotation is a plain class: the generated schema as it is.
generate_property_custom_field(field_type_generated, model, field) ==
    [node |-> "field", name |-> field, constraints |-> EmptyDict,
     schema |-> field_type_generated, many |-> FALSE, optional |-> FALSE]

\* ModelAutoSchema._generate_field_with_custom_type.  A type that is no auto
\* schema is taken as given.  For an auto schema the attribute is looked up,
\* the nested schema is generated, and the field is that schema: a list of
\* it for a to-many relationship, optional when the relationship's local
\* column is nullable; a column attribute has no uselist.  The extra
\* constraints are not looked at.
generate_field_with_custom_type(model, field, field_type, extra_field_config) ==
    IF ~field_type.auto_schema
    THEN [node |-> "field", name |-> field, constraints |-> EmptyDict]
    ELSE IF ~IsProperty(model, field) /\ field \notin DOMAIN StorageType[model]
            /\ ~HasProperty(model, field)
    THEN Raise("AttributeError")
    ELSE IF IsRaise(get_schema(field_type.meta).result)
    THEN get_schema(field_type.meta).result
    ELSE IF IsProperty(model, field)
    THEN generate_property_custom_field(get_schema(field_type.meta).result,
                                        model, field)
    ELSE IF ~IsRelationship(model, field) THEN Raise("AttributeError")
    ELSE [node |-> "field", name |-> field, constraints |-> EmptyDict,
          schema |-> get_schema(field_type.meta).result,
          many |-> Relationship(model, field).uselist,
          optional |-> Relationship(model, field).local
                            \in Nullable[model]]

\* The validators of the loop's turn: one per entry of
\* extra_fields_validators for the name, keyed <name>_validator_<index>.
field_validators(extra_fields_validators, name) ==
    { [field |-> name, index |-> i - 1,
       validator |-> get(extra_fields_validators, name, <<>>)[i]] :
        i \in 1..Len(get(extra_fields_validators, name, <<>>)) }

\* One turn of the loop over Meta.fields: the generator called, if any, and
\* the field or the error.
GenerateStep(meta, field) ==
    IF ~Hashable(field)
    THEN [call |-> <<>>, result |-> Raise("TypeError")]
    ELSE IF field.kind = "str"
    THEN [call |-> <<"_generate_field">>,
          result |-> generate_field(meta.model, field.name,
                        extra_field_config_of(meta.extra_fields_config,
                                              field))]
    ELSE IF field.kind = "tuple" /\ field.len = 2
    THEN [call |-> <<"_generate_field_with_custom_type">>,
          result |-> generate_field_with_custom_type(meta.model, field.name,
                        field.type,
                        extra_field_config_of(meta.extra_fields_config,
                                              field))]
    ELSE [call |-> <<>>, result |-> Raise("UnableProcessTypeError")]

RECURSIVE Flatten(_)
Flatten(seqs) ==
    IF seqs = <<>> THEN <<>> ELSE Head(seqs) \o Flatten(Tail(seqs))

\* pydantic.create_model: the schema class of the generated fields and the
\* validators, on the base and with the config passed.  A base together
\* with a config is taken as well: the only config that gets here with a
\* base is the empty one, which create_model leaves aside for the base's.
create_model(base_model, model_config, validators, generated_fields) ==
    [node |-> "schema", fields |-> generated_fields,
     validators |-> validators,
     base |-> base_model, config |-> model_config]

\* generated_fields after the loop: per name, the field of the last entry
\* with that name.
GeneratedFields(steps) ==
    [name \in { steps[i].result.name : i \in 1..Len(steps) } |->
        steps[CHOOSE i \in 1..Len(steps) :
                /\ steps[i].result.name = name
                /\ \A j \in (i + 1)..Len(steps) :
                        steps[j].result.name # name].result]

\* The loop and create_model, once the Meta passed the first check.
generate(meta, base_model, model_config, steps) ==
    LET bad == { i \in 1..Len(steps) : IsRaise(steps[i].result) }
        first == CHOOSE i \in bad : \A j \in bad : i <= j
    IN IF bad # {}
       THEN [calls |-> Flatten([i \in 1..first |-> steps[i].call]),
             result |-> steps[first].result]
       ELSE [calls |-> Flatten([i \in 1..Len(steps) |-> steps[i].call])
                        \o <<"create_model">>,
             result |-> create_model(base_model, model_config,
                            UNION { field_validators(
                                        meta.extra_fields_validators,
                                        steps[i].result.name) :
                                    i \in 1..Len(steps) },
                            GeneratedFields(steps))]

\* ModelAutoSchema.get_schema: the generators it calls, in order, and the
\* schema or the error.
get_schema(meta) ==
    IF Truthy(meta.base_model) /\ Truthy(meta.model_config)
    THEN [calls |-> <<>>, result |-> Raise("ValueError")]
    ELSE generate(meta, meta.base_model,
                  IF ~meta.base_model.given /\ ~meta.model_config.given
                  THEN ConfigDict({"from_attributes"})
                  ELSE meta.model_config,
                  [i \in 1..Len(meta.fields) |->
                      GenerateStep(meta, meta.fields[i])])

\* Meta of an auto schema of RelatedModel, with the fields given.
RelatedMeta(fields) ==
    [model |-> "RelatedModel", fields |-> fields, base_model |-> NoBase,
     model_config |-> NoConfig, extra_fields_config |-> EmptyDict,
     extra_fields_validators |-> EmptyDict]

RelatedAutoSchema == AutoSchemaType(RelatedMeta(<<NameSpec("id")>>))

\* An auto schema whose own generation fails: its field is a relationship.
BadAutoSchema == AutoSchemaType(RelatedMeta(<<NameSpec("test_model")>>))

FieldSpecs ==
    { NameSpec("id"), NameSpec("text"), NameSpec("custom_property"),
      NameSpec("related_model"), NameSpec("related_models"),
      NameSpec("nope"), TupleSpec("related_model", 2), TupleSpec("id", 3),
      ListSpec("id", 2), NameSpec("boolean"), TupleSpec("id", 2),
      AutoTupleSpec("related_model", RelatedAutoSchema),
      AutoTupleSpec("related_models", RelatedAutoSchema),
      AutoTupleSpec("custom_property", RelatedAutoSchema),
      AutoTupleSpec("nope", RelatedAutoSchema),
      AutoTupleSpec("id", RelatedAutoSchema),
      AutoTupleSpec("related_model", BadAutoSchema) }

\* Meta.extra_fields_config tried: none, and constraints for a string, an
\* integer and a boolean column.
ExtraFieldsConfigs ==
    { EmptyDict,
      [text |-> [max_length |-> 10, min_length |-> 1]],
      [id |-> [ge |-> 1]],
      [boolean |-> [description |-> 1]] }

\* Meta.extra_fields_validators tried: none, and two validators for id.
ExtraFieldsValidators ==
    { EmptyDict, [id |-> <<"validator_func1", "validator_func2">>] }

Metas ==
    { [model |-> "TestModel", fields |-> fields, base_model |-> base_model,
       model_config |-> model_config,
       extra_fields_config |-> extra_fields_config,
       extra_fields_validators |-> extra_fields_validators] :
        fields \in UNION { [1..n -> FieldSpecs] : n \in 0..MaxFields },
        base_model \in {NoBase, BaseModel},
        model_config \in {NoConfig, ConfigDict({}),
                          ConfigDict({"from_attributes"})},
        extra_fields_config \in ExtraFieldsConfigs,
        extra_fields_validators \in ExtraFieldsValidators }

GetSchema ==
    /\ Idle
    /\ \E meta \in Metas :
        /\ last' = Call("get_schema", meta.model, <<>>, <<>>, meta,
                        get_schema(meta))
        /\ UNCHANGED <<db, next_id>>

SchemaNext ==
    \/ Return
    \/ GetSchema

SchemaSpec == Init /\ [][SchemaNext]_vars

\* The error that tells of a base model and a config given together.
ConfigurationErrors == { Raise("ValueError") }

Generators == {"_generate_field", "_generate_field_with_custom_type"}

\* C19: with a base model and a model config both in Meta, whatever they
\* are, get_schema raises the configuration error before any field is
\* generated; with one of them or none, it goes on to generate.
C19_BothRefusedFirst ==
    last.op = "get_schema" =>
        IF last.arg.base_model.given /\ last.arg.model_config.given
        THEN /\ last.result \in ConfigurationErrors
             /\ \A i \in 1..Len(last.calls) : last.calls[i] \notin Generators
        ELSE last.result \notin ConfigurationErrors

\* A bare relationship name, or an entry that is no name and no 2-tuple.
Unsupported(model, field) ==
    \/ field.kind = "str" /\ IsRelationship(model, field.name)
    \/ field.kind # "str" /\ ~(field.kind = "tuple" /\ field.len = 2)

\* C20: when the first entry of Meta.fields that cannot be generated is a
\* bare relationship name or is neither a name nor a 2-tuple, get_schema
\* raises UnableProcessTypeError and returns no schema (Meta with at most
\* one of base model and config).
C20_UnsupportedRaises ==
    (/\ last.op = "get_schema"
     /\ ~(last.arg.base_model.given /\ last.arg.model_config.given)
     /\ \E k \in 1..Len(last.arg.fields) :
            /\ Unsupported(last.model, last.arg.fields[k])
            /\ \A j \in 1..(k - 1) :
                    ~IsRaise(GenerateStep(last.arg,
                                          last.arg.fields[j]).result)) =>
        last.result = Raise("UnableProcessTypeError")

\* C14: save calls the session in the order add, flush, and then refresh
\* with the attribute names given only when refresh is true; the flush is
\* inside the call, so the instance's row is stored when the call returns;
\* the instance given is the one returned.
C14_SaveOrder ==
    last.op = "save" =>
        /\ last.calls = IF last.arg.refresh
                        THEN <<"add", "flush", "refresh">>
                        ELSE <<"add", "flush">>
        /\ last.result.refreshed = IF last.arg.refresh
                                   THEN last.arg.attribute_names
                                   ELSE NoNames
        /\ last.arg.instance \in db[last.model]
        /\ last.result.node = "instance"
        /\ last.result.id = last.arg.instance.id

C14_Witness ==
    /\ last.op = "save"
    /\ last.arg.refresh
    /\ last.arg.attribute_names.given
    /\ last.calls = <<"add", "flush", "refresh">>
    /\ last.arg.instance \in db[last.model]

StatementCalls(calls) ==
    Cardinality({ i \in 1..Len(calls) :
                    calls[i] \in {"scalars", "scalar", "execute"} })

\* C15: insert_batch, update_batch and delete_batch hand exactly one
\* statement to the session per call, however many objects or rows there
\* are; insert_batch and update_batch of no objects make no session call
\* and return an empty list, or nothing.
C15_OneStatementPerBatch ==
    /\ (last.op \in {"insert_batch", "update_batch"}
            /\ last.arg.objects = <<>>) =>
            /\ last.calls = <<>>
            /\ last.result = IF last.op = "insert_batch"
                             THEN [node |-> "list", ids |-> {}]
                             ELSE [node |-> "none"]
    /\ (last.op \in {"insert_batch", "update_batch"}
            /\ last.arg.objects # <<>>) =>
            StatementCalls(last.calls) = 1
    /\ (last.op = "insert_batch" /\ ~IsRaise(last.result)
            /\ last.arg.objects # <<>>) =>
            /\ last.calls = <<"scalars", "flush">>
            /\ Cardinality(last.result.ids) = Len(last.arg.objects)
            /\ last.result.ids \subseteq AllIds(last.model)
    /\ (last.op = "update_batch" /\ ~IsRaise(last.result)
            /\ last.arg.objects # <<>>) =>
            last.calls = <<"execute", "flush">>
    /\ last.op = "delete_batch" =>
            IF IsRaise(last.result) THEN last.calls = <<>>
            ELSE last.calls = <<"execute">>

C15_Witness ==
    /\ last.op = "insert_batch"
    /\ Len(last.arg.objects) = MaxBatch
    /\ last.calls = <<"scalars", "flush">>
    /\ Cardinality(last.result.ids) = MaxBatch

\* C16: the field map of every object of insert_batch and update_batch has
\* every column but those of exclude_fields when the caller passed it, empty
\* or not, and every column but the repository's default list when the
\* caller passed none.
C16_ExcludeExactlyGiven ==
    (last.op \in {"insert_batch", "update_batch"}) =>
        \A i \in 1..Len(last.arg.dicts) :
            DOMAIN last.arg.dicts[i] =
                TableColumns(last.model) \
                    Range(IF last.arg.exclude_fields.given
                          THEN last.arg.exclude_fields.names
                          ELSE IF last.op = "insert_batch"
                          THEN default_exclude_bulk_create_fields
                          ELSE default_exclude_bulk_update_fields)

\* C21: in a generated schema, every entry of Meta.fields, a name or a
\* (name, type) pair, has in its field's constraints every constraint that
\* extra_fields_config gives for the name, with the value given there, and
\* has every validator that extra_fields_validators gives for the name.
C21_ExtrasMerged ==
    (last.op = "get_schema" /\ ~IsRaise(last.result)) =>
        \A i \in 1..Len(last.arg.fields) :
            LET name == last.arg.fields[i].name
                extra == get(last.arg.extra_fields_config, name, EmptyDict)
            IN /\ \A k \in DOMAIN extra :
                    /\ k \in DOMAIN last.result.fields[name].constraints
                    /\ last.result.fields[name].constraints[k] = extra[k]
               /\ field_validators(last.arg.extra_fields_validators, name)
                    \subseteq last.result.validators

\* Case-insensitive "contains".
Contains(string, part) ==
    \E i \in 1..(Len(string) - Len(part) + 1) :
        \A j \in 1..Len(part) : lower(string[i + j - 1]) = lower(part[j])

\* C22: the search filter for a non-empty value and a non-empty list of
\* attributes (columns of the model) is the OR of one case-insensitive
\* contains per attribute cast to text, and selects the rows where one of
\* them contains the value; for an empty or falsy value it selects no row.
C22_SearchFilter ==
    last.op = "search" =>
        IF Falsy(last.arg.value)
        THEN last.result.rows = <<>>
        ELSE (/\ last.arg.search_fields # <<>>
              /\ \A i \in 1..Len(last.arg.search_fields) :
                    last.arg.search_fields[i] \in Columns.TestModel) =>
            /\ last.where[1].node = "or"
            /\ Len(last.where[1].clauses) = Len(last.arg.search_fields)
            /\ Range(last.result.rows) =
                { r.id : r \in
                    { t \in db.TestModel :
                        \E i \in 1..Len(last.arg.search_fields) :
                            Contains(cast_string(last.arg.search_fields[i],
                                        t[last.arg.search_fields[i]]),
                                     strip(last.arg.value.chars)) } }

\* C23: get_filter_statement then get_order_statement gives the same
\* predicates and the same ordering list as the opposite order (and the same
\* error when a filter is refused); the result is a statement of its own,
\* the base keeps its predicates and ordering; and get_filter_statement
\* called twice with the same arguments on the same base selects the same
\* rows.
C23_BuildersCommute ==
    last.op = "filter_and_order" =>
        LET r == last.result
            base == OrSelect(last.arg.statement, last.model)
        IN /\ r.base = last.arg.statement
           /\ \A i \in 1..Len(r.refs) :
                r.refs[i] # 0 =>
                    /\ r.refs[i] # 1
                    /\ \A j \in 1..Len(r.refs) :
                            r.refs[j] = r.refs[i] => j = i
           /\ r.ordered.statement.whereclause = base.whereclause
           /\ r.ordered.statement.order_by
                = base.order_by \o process_ordering_clauses(last.arg.clauses)
           /\ IsRaise(r.filter_first) <=> IsRaise(r.order_first)
           /\ IsRaise(r.filter_first) => r.filter_first = r.order_first
           /\ ~IsRaise(r.filter_first) =>
                /\ r.filter_first.statement.whereclause
                        = r.order_first.statement.whereclause
                /\ r.filter_first.statement.order_by
                        = r.order_first.statement.order_by
                /\ r.filter_first.statement.order_by
                        = base.order_by
                            \o process_ordering_clauses(last.arg.clauses)
                /\ r.filtered.statement.order_by = base.order_by
                /\ SelectRows(db, last.model,
                              r.filtered.statement.whereclause)
                        = SelectRows(db, last.model,
                                     r.again.statement.whereclause)
                /\ SelectRows(db, last.model,
                              r.filter_first.statement.whereclause)
                        = SelectRows(db, last.model,
                                     r.order_first.statement.whereclause)

C23_Witness ==
    /\ last.op = "filter_and_order"
    /\ last.arg.statement # NoStatement
    /\ last.result.base = last.arg.statement
    /\ ~IsRaise(last.result.filter_first)
    /\ last.result.filter_first.statement.whereclause # <<>>
    /\ Len(last.result.filter_first.statement.order_by) = 2
    /\ last.result.filter_first.statement.applied
            # last.result.order_first.statement.applied
    /\ SelectRows(db, last.model,
                  last.result.filter_first.statement.whereclause) # {}

\* C24: when a session call of a repository operation raises, the error
\* is the operation's outcome, the failed call is the last session call of
\* the operation (no retry, no flush or refresh after it), and the session
\* is never committed, rolled back or closed by the repository.  Step by
\* step: the step in which the call raises adds to the calls the operation
\* had made that one awaited call and nothing behind it, and the operation
\* that has raised makes no step but handing the error to the caller.
C24_ErrorsPropagate ==
    /\ [](\A i \in 1..Len(last.calls) :
            last.calls[i] \notin {"commit", "rollback", "close"})
    /\ []("fault_at" \in DOMAIN last.arg =>
            /\ last.result = Raise(last.arg.error)
            /\ Len(last.calls) = last.arg.fault_at
            /\ last.calls = SubSeq(last.arg.planned, 1, last.arg.fault_at))
    /\ [][ "fault_at" \in DOMAIN last'.arg =>
            LET made == IF Suspended THEN last.calls ELSE <<>>
                n == Len(last'.calls)
            IN /\ Idle \/ Suspended
               /\ Suspended => last'.op = last.arg.op
               /\ n > Len(made)
               /\ SubSeq(last'.calls, 1, Len(made)) = made
               /\ Awaited(last'.calls[n])
               /\ \A i \in (Len(made) + 1)..(n - 1) :
                    ~Awaited(last'.calls[i])
               /\ last'.result \in { Raise(e) : e \in SessionErrors }
               /\ db' = db ]_vars
    /\ [][ "fault_at" \in DOMAIN last.arg => last' = NoCall /\ db' = db ]_vars

\* A save that had flushed and was waiting, and whose refresh raised.
C24_Witness ==
    /\ last.op = "save"
    /\ "fault_at" \in DOMAIN last.arg
    /\ last.arg.fault_at = 3
    /\ last.calls = <<"add", "flush", "refresh">>
    /\ last.result = Raise("OperationalError")
    /\ db[last.model] # {}

\* C25: values(field, ...) gives the field of the rows that fetch_all with
\* the same statement, where filters, ordering and keyword filters and
\* unique=False returns, in the same order, and raises what it raises, with
\* or without an explicit statement.
C25_ValuesAsFetchAll ==
    last.op = "values" =>
        \E o \in fetch_all(db, last.model, last.arg, FALSE) :
            /\ IsRaise(o.result) <=> IsRaise(last.result)
            /\ IsRaise(o.result) => o.result = last.result
            /\ ~IsRaise(o.result) =>
                    last.result.rows =
                        [i \in 1..Len(o.result.rows) |->
                            RowById(db, last.model, o.result.rows[i]).id]

\* C26: get_pagination_statement sets OFFSET only for an offset that is
\* not None and not 0 and LIMIT only for a limit that is not None and not 0;
\* with both None or 0 the statement is the incoming one; a fetch_all with
\* limit=0 and no offset returns all rows of its statement.
C26_ZeroIsNoLimit ==
    /\ last.op = "get_pagination_statement" =>
        LET given == OrSelect(last.arg.statement, last.model)
            made == last.result.statement
        IN /\ made.offset = IF last.arg.offset \in {NULL, 0}
                            THEN given.offset ELSE last.arg.offset
           /\ made.limit = IF last.arg.limit \in {NULL, 0}
                           THEN given.limit ELSE last.arg.limit
           /\ [made EXCEPT !.offset = NULL, !.limit = NULL, !.applied = <<>>]
                = [given EXCEPT !.offset = NULL, !.limit = NULL,
                                !.applied = <<>>]
           /\ (last.arg.offset \in {NULL, 0} /\ last.arg.limit \in {NULL, 0})
                => [made EXCEPT !.applied = <<>>]
                        = [given EXCEPT !.applied = <<>>]
    /\ (/\ last.op = "fetch_all"
        /\ last.model \in Models
        /\ ~IsRaise(last.result)
        /\ last.arg.limit = 0
        /\ last.arg.offset \in {NULL, 0}
        /\ last.where = <<>> /\ last.kw = <<>>) =>
            Range(last.result.rows) = AllIds(last.model)

C26_Witness ==
    /\ last.op = "fetch_all"
    /\ last.model = "TestModel"
    /\ last.arg.limit = 0
    /\ ~IsRaise(last.result)
    /\ Len(last.result.rows) = 2

\* C27: delete_batch of the soft-delete repository removes every row its
\* filters match, active or soft-deleted, and leaves the other rows as they
\* were, no marker set; delete(instance) on a stored row, soft-deleted
\* already or not, leaves the row stored with the marker set.
C27_OnlyDeleteIsSoft ==
    /\ (last.op = "delete_batch" /\ last.model = Soft) =>
        LET matched == { r \in last.arg.before :
                            last.kw = <<>> \/ last.kw = ById(r.id) }
        IN /\ last.calls = <<"execute">>
           /\ last.result.rows = { r.id : r \in matched }
           /\ db[Soft] = last.arg.before \ matched
    /\ (last.op = "delete" /\ last.arg.was # "purged") =>
           /\ LifeCycle(last.arg.instance.id) = "soft-deleted"
           /\ RowById(db, Soft, last.arg.instance.id).deleted = last.arg.now
           /\ RowById(db, Soft, last.arg.instance.id).deleted # NULL

C27_Witness ==
    /\ last.op = "delete_batch"
    /\ last.model = Soft
    /\ \E r \in last.arg.before : r.deleted # NULL
    /\ \E r \in last.arg.before : r.deleted = NULL
    /\ db[Soft] = {}

\* C28: Filter.transform_filter ends for every field string, on cyclic
\* relationship graphs too: every relationship hop hands the nested call the
\* field without its first segment, so the nested calls are at most as many
\* as the field has segments, and the call ends with a predicate, which
\* nests one has / any per hop, or with an error.
C28_RecursionBounded ==
    last.op = "transform_filter" =>
        LET self == last.where[1]
            calls == transform_filter_calls(self, last.model)
            hops == Len(calls) - 1
        IN /\ calls[1] = [field |-> self.field, model |-> last.model]
           /\ hops <= Len(split(self.field))
           /\ \A i \in 1..hops :
                /\ Len(calls[i + 1].field) < Len(calls[i].field)
                /\ split(calls[i + 1].field) =
                        IF Len(split(calls[i].field)) = 1 THEN <<"">>
                        ELSE Tail(split(calls[i].field))
                /\ IsRelationship(calls[i].model, Head(split(calls[i].field)))
                /\ calls[i + 1].model =
                        Relationship(calls[i].model,
                                     Head(split(calls[i].field))).target
           /\ ~IsRelationship(calls[Len(calls)].model,
                              Head(split(calls[Len(calls)].field)))
           /\ \/ IsRaise(last.result)
              \/ /\ last.result.node \in {"cmp", "has", "any", "not"}
                 /\ Nesting(last.result) = hops

\* A chain that comes back to the model it started from, and on to the
\* related model again, has been transformed into a predicate.
C28_Witness ==
    /\ last.op = "transform_filter"
    /\ ~IsRaise(last.result)
    /\ LET calls == transform_filter_calls(last.where[1], last.model)
       IN /\ Len(calls) = 4
          /\ calls[3].model = calls[1].model
          /\ calls[4].model = calls[2].model
          /\ Nesting(last.result) = 3

\* A chain of relationships only, round the cycle, has used up its field
\* and ended in an error.
C28_WitnessError ==
    /\ last.op = "transform_filter"
    /\ IsRaise(last.result)
    /\ LET calls == transform_filter_calls(last.where[1], last.model)
       IN /\ Len(calls) = 4
          /\ calls[4].field = <<>>

\* ------------------------------------------------------------------------
\* PostgresRange and PostgresDateRange (schema/fields.py)
\* ------------------------------------------------------------------------

\* Dates are day numbers: 0 stands for datetime.date.min and MaxDay for
\* datetime.date.max, beyond which date arithmetic overflows.
MaxDay == 4

Days == 0..MaxDay

PostgresRangeBound == {"[]", "()", "[)", "(]"}

Limits == {NULL} \cup Days

RangeObject(lo, up, bounds) ==
    [node |-> "range", lower |-> lo, upper |-> up, bounds |-> bounds]

validate_bounds(self) ==
    IF self.lower = NULL \/ self.upper = NULL THEN self
    ELSE IF self.lower > self.upper THEN Raise("ValueError")
    ELSE self

\* A date is truthy whatever its value, so `if self.lower` asks whether the
\* limit is there.  The lower limit is moved before the upper one.
model_post_init(self) ==
    LET moves_lower == self.bounds \in {"(]", "()"} /\ self.lower # NULL
        moves_upper == self.bounds \in {"[)", "()"} /\ self.upper # NULL
    IN IF self.bounds = "[]" THEN self
       ELSE IF moves_lower /\ self.lower + 1 > MaxDay
       THEN Raise("OverflowError")
       ELSE IF moves_upper /\ self.upper - 1 < 0
       THEN Raise("OverflowError")
       ELSE [self EXCEPT
                !.lower = IF moves_lower THEN @ + 1 ELSE @,
                !.upper = IF moves_upper THEN @ - 1 ELSE @,
                !.bounds = "[]"]

\* Validation reports the ValueError of an after-validator as a
\* ValidationError.
PostgresRange(lo, up, bounds) ==
    LET checked == validate_bounds(RangeObject(lo, up, bounds))
    IN IF IsRaise(checked) THEN Raise("ValidationError") ELSE checked

\* Faulty variant of PostgresDateRange: the limits are compared before they
\* are moved.
PostgresDateRange_validate_first(lo, up, bounds) ==
    LET checked == validate_bounds(RangeObject(lo, up, bounds))
    IN IF IsRaise(checked) THEN Raise("ValidationError")
       ELSE model_post_init(checked)

\* model_post_init runs once the fields are set, before the after-validator;
\* an OverflowError of the date arithmetic is not a validation error and
\* comes out as it is.
PostgresDateRange(lo, up, bounds) ==
    LET initialized == model_post_init(RangeObject(lo, up, bounds))
        checked == validate_bounds(initialized)
    IN IF IsRaise(initialized) THEN initialized
       ELSE IF IsRaise(checked) THEN Raise("ValidationError")
       ELSE checked

ConstructRange ==
    /\ Idle
    /\ \E lo \in Limits, up \in Limits, bounds \in PostgresRangeBound :
        /\ last' = Call("PostgresRange", "PostgresRange", <<>>, <<>>,
                        [lower |-> lo, upper |-> up, bounds |-> bounds],
                        [calls |-> <<>>,
                         result |-> PostgresRange(lo, up, bounds)])
        /\ UNCHANGED <<db, next_id>>

ConstructDateRange ==
    /\ Idle
    /\ \E lo \in Limits, up \in Limits, bounds \in PostgresRangeBound :
        /\ last' = Call("PostgresDateRange", "PostgresDateRange", <<>>, <<>>,
                        [lower |-> lo, upper |-> up, bounds |-> bounds],
                        [calls |-> <<>>,
                         result |-> PostgresDateRange(lo, up, bounds)])
        /\ UNCHANGED <<db, next_id>>

RangeNext ==
    \/ Return
    \/ ConstructRange
    \/ ConstructDateRange

RangeSpec == Init /\ [][RangeNext]_vars

\* C29: a PostgresDateRange that was constructed has bounds '[]' whatever
\* bounds it was given: an exclusive lower limit is one day later, an
\* exclusive upper limit one day earlier, a missing limit is still missing,
\* an inclusive one is as given, and lower <= upper when both are there.  A
\* PostgresRange given lower > upper is refused with a validation error.
C29_DateRangeInclusive ==
    /\ (last.op = "PostgresDateRange" /\ ~IsRaise(last.result)) =>
            /\ last.result.bounds = "[]"
            /\ last.result.lower =
                    IF last.arg.lower # NULL /\ last.arg.bounds \in {"(]", "()"}
                    THEN last.arg.lower + 1 ELSE last.arg.lower
            /\ last.result.upper =
                    IF last.arg.upper # NULL /\ last.arg.bounds \in {"[)", "()"}
                    THEN last.arg.upper - 1 ELSE last.arg.upper
            /\ (last.result.lower # NULL /\ last.result.upper # NULL) =>
                    last.result.lower <= last.result.upper
    /\ (/\ last.op \in {"PostgresRange", "PostgresDateRange"}
        /\ last.arg.lower # NULL
        /\ last.arg.upper # NULL
        /\ last.arg.lower > last.arg.upper) =>
            /\ IsRaise(last.result)
            /\ last.op = "PostgresRange" =>
                    last.result = Raise("ValidationError")

\* A date range given both limits and bounds '()' has been constructed, each
\* limit moved by a day.
C29_Witness ==
    /\ last.op = "PostgresDateRange"
    /\ last.arg.bounds = "()"
    /\ last.arg.lower # NULL
    /\ last.arg.upper # NULL
    /\ ~IsRaise(last.result)
    /\ last.result.lower = last.arg.lower + 1
    /\ last.result.upper = last.arg.upper - 1
    /\ last.result.bounds = "[]"

\* ------------------------------------------------------------------------
\* get_async_db_session and get_async_db_session_context (session.py)
\* ------------------------------------------------------------------------

\* What the consumer's body may raise: an Exception, and a BaseException
\* that is not one (the cancellation of the task).
BodyErrors == {"ValueError", "CancelledError"}

Exceptions == {"ValueError"}

\* How a generator suspended at its yield is resumed: with the next value
\* asked for, or with an error thrown in.
AskNext == [kind |-> "next", error |-> "none"]

Throw(error) == [kind |-> "throw", error |-> error]

Done == [node |-> "none"]

\* get_async_db_session from its yield on: the except branch rolls back and
\* raises the error again, the else branch commits; `except Exception` lets
\* any other error through; leaving `async with` closes the session.
get_async_db_session(resumed) ==
    IF resumed.kind = "next"
    THEN [calls |-> <<"commit", "close">>, result |-> Done]
    ELSE IF resumed.error \in Exceptions
    THEN [calls |-> <<"rollback", "close">>, result |-> Raise(resumed.error)]
    ELSE [calls |-> <<"close">>, result |-> Raise(resumed.error)]

\* get_async_db_session_context from its yield on: the finally block asks
\* the session generator for its next value, whether the body finished or
\* an error was thrown in, and the error is raised again after it.
get_async_db_session_context(resumed) ==
    LET inner == get_async_db_session(AskNext)
    IN IF resumed.kind = "next" THEN inner
       ELSE [calls |-> inner.calls, result |-> Raise(resumed.error)]

SessionFactories == {"get_async_db_session", "get_async_db_session_context"}

InSession == last.op \in SessionFactories

\* The session is handed out: `before` is what the database holds, the
\* transaction's writes of the body are seen in db until the session ends.
OpenSession ==
    /\ Idle
    /\ \E factory \in SessionFactories :
        last' = Call(factory, "TestModel", <<>>, <<>>,
                     [pc |-> "body", before |-> db, body |-> "running",
                      error |-> "none", rest |-> <<>>, outcome |-> Done],
                     [calls |-> <<>>, result |-> Done])
    /\ UNCHANGED <<db, next_id>>

\* The body saves an instance through a repository bound to the session.
BodySave ==
    /\ InSession
    /\ last.arg.pc = "body"
    /\ Saved < MaxSaved
    /\ \E model \in Models :
        \E instance \in NewInstances(model) :
            LET o == save(db, model, instance, FALSE, NoNames)
            IN /\ db' = o.data
               /\ next_id' = [next_id EXCEPT ![model] = @ + 1]
               /\ last' = [last EXCEPT !.calls = @ \o o.calls]

BodyFinish ==
    /\ InSession
    /\ last.arg.pc = "body"
    /\ last' = [last EXCEPT !.arg.pc = "finished"]
    /\ UNCHANGED <<db, next_id>>

BodyRaise ==
    /\ InSession
    /\ last.arg.pc = "body"
    /\ \E error \in BodyErrors :
        last' = [last EXCEPT !.arg.pc = "raised", !.arg.error = error]
    /\ UNCHANGED <<db, next_id>>

\* The consumer hands control back: the next value is asked for when the
\* body finished, the error is thrown in when it raised.  The generator
\* runs to the first session call it awaits: the commit or the rollback, or
\* the close of `async with` when it makes neither.  What was written stays
\* when the session is committed and is gone otherwise.
EndSession ==
    /\ InSession
    /\ last.arg.pc \in {"finished", "raised"}
    /\ LET resumed == IF last.arg.pc = "finished" THEN AskNext
                      ELSE Throw(last.arg.error)
           o == IF last.op = "get_async_db_session"
                THEN get_async_db_session(resumed)
                ELSE get_async_db_session_context(resumed)
           rest == Tail(o.calls)
       IN /\ last' = [last EXCEPT !.calls = @ \o <<Head(o.calls)>>,
                                  !.result = IF rest = <<>> THEN o.result
                                             ELSE @,
                                  !.arg.pc = IF rest = <<>> THEN "ended"
                                             ELSE "closing",
                                  !.arg.body = last.arg.pc,
                                  !.arg.rest = rest,
                                  !.arg.outcome = o.result]
          /\ db' = IF Head(o.calls) = "commit" THEN db ELSE last.arg.before
    /\ UNCHANGED next_id

\* After the commit or the rollback, leaving `async with` closes the
\* session, and the generator ends or raises the error again.
CloseSession ==
    /\ InSession
    /\ last.arg.pc = "closing"
    /\ last' = [last EXCEPT !.calls = @ \o last.arg.rest,
                            !.result = last.arg.outcome,
                            !.arg.pc = "ended",
                            !.arg.rest = <<>>]
    /\ UNCHANGED <<db, next_id>>

SessionReturn ==
    /\ InSession
    /\ last.arg.pc = "ended"
    /\ last' = NoCall
    /\ UNCHANGED <<db, next_id>>

SessionNext ==
    \/ OpenSession
    \/ BodySave
    \/ BodyFinish
    \/ BodyRaise
    \/ EndSession
    \/ CloseSession
    \/ SessionReturn

SessionSpec == Init /\ [][SessionNext]_vars

IsEnd(call) == call \in {"commit", "rollback"}

\* C30: a session handed out by get_async_db_session or by
\* get_async_db_session_context ends with exactly one of commit and
\* rollback: with commit exactly when the body finished without raising;
\* when the body raised, with rollback and no commit, the error of the body
\* reaches the caller and the database holds what it held before.
C30_CommitXorRollback ==
    (InSession /\ last.arg.pc = "ended") =>
        LET ends == SelectSeq(last.calls, IsEnd)
        IN /\ Len(ends) = 1
           /\ ends = <<"commit">> <=> last.arg.body = "finished"
           /\ last.arg.body = "raised" =>
                /\ ends = <<"rollback">>
                /\ last.result = Raise(last.arg.error)
                /\ db = last.arg.before

====
